---- MODULE Spec2Model ----
(***************************************************************************)
(* The script interpreter of src/src/core/interpreter.ts as a state        *)
(* machine.  executeScript classifies the source text, parses it (acorn,   *)
(* external) and walks the AST.  Every evaluateX method is an async        *)
(* function that awaits each recursive evaluateNode call, so an activation *)
(* suspended at an await is a frame of the continuation stack kont, and    *)
(* ctl is what is being evaluated, returned or thrown right now.           *)
(***************************************************************************)
EXTENDS Integers, Sequences, FiniteSets, TLC

VARIABLES
  script,   \* the source text handed to executeScript (index into Scripts)
  inp,      \* the operators and operands of the generated arithmetic script
  pc,       \* position inside executeScript
  lineNo,   \* fragment mode: index of the line of the for-of loop
  ctl,      \* the evaluation in progress
  kont,     \* suspended activations, innermost last
  envs,     \* every Environment created so far; an Environment is its index
  objs,     \* guest objects and arrays, by reference
  trace,    \* what the outside saw: log callback, console, host calls
  result,   \* what interpreter.execute last returned
  context,  \* the ScriptContext this invocation of executeScript was given
  interpreter,  \* the Interpreter this invocation made: its field globalEnv
  parked,   \* the other invocation of executeScript in flight, if any
  isExecuting,           \* background.ts: let isExecuting
  currentExecutionLogs,  \* background.ts: let currentExecutionLogs
  executions,  \* background.ts: the invocations of its executeScript, their locals
  crx,         \* playwright-crx: whether its one application is started
  sent         \* what GET_EXECUTION_STATE last answered

vars ==
  << script, inp, pc, lineNo, ctl, kont, envs, objs, trace, result, context,
     interpreter, parked, isExecuting, currentExecutionLogs, executions, crx, sent >>

\* The state of the background page.
background == <<isExecuting, currentExecutionLogs, executions, crx, sent>>

\* The state of one executeScript of the interpreter module.
core ==
  << script, inp, pc, lineNo, ctl, kont, envs, objs, trace, result, context,
     interpreter, parked >>

(***************************************************************************)
(* Guest values.  Every value is [k |-> kind, v |-> payload].              *)
(***************************************************************************)
Undefined == [k |-> "undefined", v |-> 0]
Null == [k |-> "null", v |-> 0]
Num(n) == [k |-> "num", v |-> n]
NaN == [k |-> "nan", v |-> 0]
Inf(sign) == [k |-> "inf", v |-> sign]
Str(s) == [k |-> "str", v |-> s]
Bool(b) == [k |-> "bool", v |-> b]
BigInt(n) == [k |-> "bigint", v |-> n]
Obj(ref) == [k |-> "object", v |-> ref]
Arr(ref) == [k |-> "array", v |-> ref]
Native(name) == [k |-> "native", v |-> name]
\* new Error(message): the message is kept as the pieces of its template string.
Err(message) == [k |-> "error", v |-> [name |-> "Error", message |-> message]]

\* An error the JavaScript runtime raises by itself.
TypeError(message) == [k |-> "error", v |-> [name |-> "TypeError", message |-> message]]
ContextLog == [k |-> "contextLog", v |-> context.log]

\* class ReturnValue { constructor(public value) }
ReturnValue(value) == [k |-> "ReturnValue", v |-> value]

IsReturnValue(x) == x.k = "ReturnValue"

\* A non-integer number, as the fraction n/d in lowest terms with d > 1.
Frac(n, d) == [k |-> "frac", v |-> <<n, d>>]

\* The keys every plain object inherits from Object.prototype (a subset).
ObjectPrototypeKeys == {"constructor", "toString", "valueOf", "hasOwnProperty"}

\* JavaScript's `name in variables` on a plain object: own or inherited.
HasProperty(variables, name) ==
  name \in DOMAIN variables \/ name \in ObjectPrototypeKeys

\* JavaScript's variables[name] on a plain object.
GetProperty(variables, name) ==
  IF name \in DOMAIN variables THEN variables[name]
  ELSE IF name = "constructor" THEN Native("Object")
  ELSE IF name \in ObjectPrototypeKeys THEN Native(name)
  ELSE Undefined

\* JavaScript's variables[name] = value.
SetProperty(variables, name, value) ==
  [n \in DOMAIN variables \cup {name} |-> IF n = name THEN value ELSE variables[n]]

(***************************************************************************)
(* Environment: { variables, parent }; parent 0 is null.                   *)
(***************************************************************************)
createEnvironment(variables, parent) == [variables |-> variables, parent |-> parent]

\* The Environment a fresh createEnvironment call returns, and the store after it.
NewEnv(es) == Len(es) + 1

Alloc(es, variables, parent) == Append(es, createEnvironment(variables, parent))

RECURSIVE lookup(_, _, _)
\* [ok |-> TRUE, val] or, with no frame holding the name, the thrown Error.
lookup(es, env, name) ==
  IF HasProperty(es[env].variables, name)
    THEN [ok |-> TRUE, val |-> GetProperty(es[env].variables, name)]
  ELSE IF es[env].parent # 0
    THEN lookup(es, es[env].parent, name)
  ELSE [ok |-> FALSE, val |-> Err(<<"Variable '", name, "' is not defined">>)]

\* A define that writes into the parent frame where there is one.
DefineInParent(es, env, name, value) ==
  [es EXCEPT ![IF es[env].parent # 0 THEN es[env].parent ELSE env].variables =
     SetProperty(@, name, value)]

define(es, env, name, value) ==
  [es EXCEPT ![env].variables = SetProperty(@, name, value)]

RECURSIVE DefiningEnv(_, _, _)
\* The walk `while (currentEnv) { if (name in currentEnv.variables) ... }`:
\* the first frame of the chain holding the name, 0 when there is none.
DefiningEnv(es, env, name) ==
  IF env = 0 THEN 0
  ELSE IF HasProperty(es[env].variables, name) THEN env
  ELSE DefiningEnv(es, es[env].parent, name)

RECURSIVE Join(_)
\* The string a sequence of pieces spells.
Join(pieces) == IF pieces = <<>> THEN "" ELSE Head(pieces) \o Join(Tail(pieces))

(***************************************************************************)
(* The host language's operators, which the evaluator applies to guest     *)
(* values (left + right, -argument, if (test) ...).  Numbers are integers  *)
(* and exact fractions, NaN and the infinities; signed zeros and rounding  *)
(* are not distinguished.                                                  *)
(***************************************************************************)
Abs(n) == IF n < 0 THEN -n ELSE n

RECURSIVE GCD(_, _)
GCD(a, b) == IF b = 0 THEN a ELSE GCD(b, a % b)

\* Integer division rounding toward zero, for d > 0.
Trunc(n, d) == IF n >= 0 THEN n \div d ELSE -((-n) \div d)

\* The number n/d (d # 0).
Rat(n, d) ==
  LET s == IF d < 0 THEN -1 ELSE 1
      g == GCD(Abs(n), Abs(d))
      nn == (s * n) \div g
      dd == (s * d) \div g
  IN IF dd = 1 THEN Num(nn) ELSE Frac(nn, dd)

IsFinite(x) == x.k \in {"num", "frac"}
Numer(x) == IF x.k = "num" THEN x.v ELSE x.v[1]
Denom(x) == IF x.k = "num" THEN 1 ELSE x.v[2]
Sign(x) == IF x.k = "inf" THEN x.v ELSE IF Numer(x) < 0 THEN -1 ELSE 1
IsZero(x) == x.k = "num" /\ x.v = 0

\* The largest magnitude of an integer a numeric string of the model spells.
MaxNumeral == 20

\* ToNumber of the language standard.
ToNumber(x) ==
  CASE x.k \in {"num", "frac", "nan", "inf"} -> x
    [] x.k = "bool" -> IF x.v THEN Num(1) ELSE Num(0)
    [] x.k = "null" -> Num(0)
    [] x.k = "str" ->
         IF x.v = "" THEN Num(0)
         ELSE IF \E n \in -MaxNumeral..MaxNumeral : ToString(n) = x.v
           THEN Num(CHOOSE n \in -MaxNumeral..MaxNumeral : ToString(n) = x.v)
         ELSE NaN
    [] OTHER -> NaN

\* String(x) of the language standard; a fraction n/d is spelled "n/d".
ToStringJS(x) ==
  CASE x.k = "str" -> x.v
    [] x.k = "num" -> ToString(x.v)
    [] x.k = "frac" -> ToString(x.v[1]) \o "/" \o ToString(x.v[2])
    [] x.k = "nan" -> "NaN"
    [] x.k = "inf" -> IF x.v < 0 THEN "-Infinity" ELSE "Infinity"
    [] x.k = "bool" -> IF x.v THEN "true" ELSE "false"
    [] x.k = "undefined" -> "undefined"
    [] x.k = "null" -> "null"
    [] x.k = "bigint" -> ToString(x.v)
    [] x.k = "error" -> x.v.name \o ": " \o Join(x.v.message)
    [] x.k = "object" -> "[object Object]"
    [] x.k = "native" -> "function " \o x.v \o "() { [native code] }"

Truthy(x) ==
  CASE x.k \in {"undefined", "null", "nan"} -> FALSE
    [] x.k = "bool" -> x.v
    [] x.k \in {"num", "bigint"} -> x.v # 0
    [] x.k = "str" -> x.v # ""
    [] OTHER -> TRUE

TypeOf(x) ==
  CASE x.k \in {"num", "frac", "nan", "inf"} -> "number"
    [] x.k = "str" -> "string"
    [] x.k = "bool" -> "boolean"
    [] x.k = "undefined" -> "undefined"
    [] x.k = "bigint" -> "bigint"
    [] x.k \in {"closure", "hostMethod", "native", "contextLog"} -> "function"
    [] OTHER -> "object"

NumNeg(a) ==
  CASE a.k = "nan" -> NaN
    [] a.k = "inf" -> Inf(-a.v)
    [] OTHER -> Rat(-Numer(a), Denom(a))

NumAdd(a, b) ==
  CASE a.k = "nan" \/ b.k = "nan" -> NaN
    [] a.k = "inf" /\ b.k = "inf" -> IF a.v = b.v THEN a ELSE NaN
    [] a.k = "inf" -> a
    [] b.k = "inf" -> b
    [] OTHER -> Rat(Numer(a) * Denom(b) + Numer(b) * Denom(a), Denom(a) * Denom(b))

NumMul(a, b) ==
  CASE a.k = "nan" \/ b.k = "nan" -> NaN
    [] a.k = "inf" \/ b.k = "inf" ->
         IF IsZero(a) \/ IsZero(b) THEN NaN ELSE Inf(Sign(a) * Sign(b))
    [] OTHER -> Rat(Numer(a) * Numer(b), Denom(a) * Denom(b))

NumDiv(a, b) ==
  CASE a.k = "nan" \/ b.k = "nan" -> NaN
    [] a.k = "inf" -> IF b.k = "inf" THEN NaN ELSE Inf(Sign(a) * Sign(b))
    [] b.k = "inf" -> Num(0)
    [] IsZero(b) -> IF IsZero(a) THEN NaN ELSE Inf(Sign(a))
    [] OTHER -> Rat(Numer(a) * Denom(b), Denom(a) * Numer(b))

\* The remainder with the sign of the dividend.
NumRem(a, b) ==
  CASE a.k = "nan" \/ b.k = "nan" -> NaN
    [] a.k = "inf" -> NaN
    [] b.k = "inf" -> a
    [] IsZero(b) -> NaN
    [] OTHER ->
         LET p == Numer(a) * Denom(b)
             q == Abs(Numer(b)) * Denom(a)
             r == p - q * Trunc(p, q)
         IN Rat(r, Denom(a) * Denom(b))

NumLess(a, b) ==
  CASE a.k = "nan" \/ b.k = "nan" -> FALSE
    [] a.k = "inf" /\ b.k = "inf" -> a.v < b.v
    [] a.k = "inf" -> a.v < 0
    [] b.k = "inf" -> b.v > 0
    [] OTHER -> Numer(a) * Denom(b) < Numer(b) * Denom(a)

RECURSIVE PowNat(_, _)
PowNat(a, n) == IF n = 0 THEN Num(1) ELSE NumMul(a, PowNat(a, n - 1))

\* a ** b for an integer exponent b.
NumPow(a, b) ==
  CASE b.k = "nan" -> NaN
    [] IsZero(b) -> Num(1)
    [] a.k = "nan" -> NaN
    [] b.k = "inf" ->
         IF NumLess(Num(1), a) \/ NumLess(a, Num(-1))
           THEN (IF b.v > 0 THEN Inf(1) ELSE Num(0))
         ELSE IF NumLess(Num(-1), a) /\ NumLess(a, Num(1))
           THEN (IF b.v > 0 THEN Num(0) ELSE Inf(1))
         ELSE NaN
    [] b.v > 0 -> PowNat(a, b.v)
    [] OTHER -> NumDiv(Num(1), PowNat(a, -b.v))

\* a === b
StrictEquals(a, b) ==
  /\ a.k = b.k
  /\ a.k # "nan"
  /\ a.v = b.v

\* a == b, on the primitives of the model.
LooseEquals(a, b) ==
  CASE a.k = b.k -> StrictEquals(a, b)
    [] a.k \in {"undefined", "null"} /\ b.k \in {"undefined", "null"} -> TRUE
    [] a.k \in {"undefined", "null"} \/ b.k \in {"undefined", "null"} -> FALSE
    [] a.k \in {"num", "frac", "nan", "inf", "str", "bool"}
         /\ b.k \in {"num", "frac", "nan", "inf", "str", "bool"} ->
         StrictEquals(ToNumber(a), ToNumber(b))
    [] OTHER -> FALSE

\* left + right: concatenation as soon as one operand is a string or an object
\* (whose primitive is a string).
JsPlus(left, right) ==
  IF {left.k, right.k} \cap {"str", "object", "native", "error"} # {}
    THEN Str(ToStringJS(left) \o ToStringJS(right))
    ELSE NumAdd(ToNumber(left), ToNumber(right))

\* left < right, for operands that are not both strings.
JsLess(left, right) ==
  CASE ~(left.k = "str" /\ right.k = "str") ->
         Bool(NumLess(ToNumber(left), ToNumber(right)))

(***************************************************************************)
(* The AST acorn produces (ESTree); the interpreter only reads it.         *)
(***************************************************************************)
NoNode == [type |-> "null"]
Program(body) == [type |-> "Program", body |-> body]
ExprStmt(e) == [type |-> "ExpressionStatement", expression |-> e]
Id(name) == [type |-> "Identifier", name |-> name]
Lit(value) == [type |-> "Literal", value |-> value]
Call(callee, args) == [type |-> "CallExpression", callee |-> callee, arguments |-> args]
Member(object, name) ==
  [type |-> "MemberExpression", object |-> object, property |-> Id(name), computed |-> FALSE]
Index(object, property) ==
  [type |-> "MemberExpression", object |-> object, property |-> property, computed |-> TRUE]
Await(argument) == [type |-> "AwaitExpression", argument |-> argument]
Declarator(id, init) == [type |-> "VariableDeclarator", id |-> id, init |-> init]
VarDecl(declarations) == [type |-> "VariableDeclaration", declarations |-> declarations]
Let(name, init) == VarDecl(<<Declarator(Id(name), init)>>)
ObjectPattern(properties) == [type |-> "ObjectPattern", properties |-> properties]
PatProp(key, value, computed) ==
  [type |-> "Property", key |-> key, value |-> value, computed |-> computed]
RestElement(argument) == [type |-> "RestElement", argument |-> argument]
ArrayPattern(elements) == [type |-> "ArrayPattern", elements |-> elements]
AssignmentPattern(left, right) == [type |-> "AssignmentPattern", left |-> left, right |-> right]
Block(body) == [type |-> "BlockStatement", body |-> body]
If(test, consequent, alternate) ==
  [type |-> "IfStatement", test |-> test, consequent |-> consequent, alternate |-> alternate]
Binary(operator, left, right) ==
  [type |-> "BinaryExpression", operator |-> operator, left |-> left, right |-> right]
Unary(operator, argument) ==
  [type |-> "UnaryExpression", operator |-> operator, argument |-> argument]
For(init, test, update, body) ==
  [type |-> "ForStatement", init |-> init, test |-> test, update |-> update, body |-> body]
While(test, body) == [type |-> "WhileStatement", test |-> test, body |-> body]
ObjProp(name, value) ==
  [type |-> "Property", key |-> Id(name), value |-> value, computed |-> FALSE]
ObjectExpr(properties) == [type |-> "ObjectExpression", properties |-> properties]
ArrayExpr(elements) == [type |-> "ArrayExpression", elements |-> elements]
FuncDecl(name, params, body) ==
  [type |-> "FunctionDeclaration", id |-> Id(name), params |-> params, body |-> body]
Arrow(params, body) == [type |-> "ArrowFunctionExpression", params |-> params, body |-> body]
Return(argument) == [type |-> "ReturnStatement", argument |-> argument]
Assign(operator, left, right) ==
  [type |-> "AssignmentExpression", operator |-> operator, left |-> left, right |-> right]
Update(operator, prefix, argument) ==
  [type |-> "UpdateExpression", operator |-> operator, prefix |-> prefix, argument |-> argument]
CatchClause(param, body) == [type |-> "CatchClause", param |-> param, body |-> body]
Try(block, handler, finalizer) ==
  [type |-> "TryStatement", block |-> block, handler |-> handler, finalizer |-> finalizer]
Logical(operator, left, right) ==
  [type |-> "LogicalExpression", operator |-> operator, left |-> left, right |-> right]
TemplateElement(cooked) == [type |-> "TemplateElement", value |-> [cooked |-> cooked]]
Template(quasis, expressions) ==
  [type |-> "TemplateLiteral", quasis |-> quasis, expressions |-> expressions]
Conditional(test, consequent, alternate) ==
  [type |-> "ConditionalExpression", test |-> test, consequent |-> consequent,
   alternate |-> alternate]
ThrowStmt(argument) == [type |-> "ThrowStatement", argument |-> argument]
New(callee, args) == [type |-> "NewExpression", callee |-> callee, arguments |-> args]

\* JavaScript's truthiness of an optional child (`if (node.init)`, `node.alternate`).
Present(node) == node.type # "null"

(***************************************************************************)
(* The machine's pieces.                                                   *)
(***************************************************************************)
Eval(node, env) == [m |-> "eval", node |-> node, env |-> env, val |-> Undefined]
Ret(val) == [m |-> "ret", node |-> NoNode, env |-> 0, val |-> val]
Throw(val) == [m |-> "throw", node |-> NoNode, env |-> 0, val |-> val]
Pending(val) == [m |-> "host", node |-> NoNode, env |-> 0, val |-> val]
Idle == [m |-> "idle", node |-> NoNode, env |-> 0, val |-> Undefined]

\* An activation of method f suspended at its i-th await, with its locals.
Frame(f, node, env, i, acc) == [f |-> f, node |-> node, env |-> env, i |-> i, acc |-> acc]

Top == kont[Len(kont)]
Pop == SubSeq(kont, 1, Len(kont) - 1)
Push(frame) == Append(kont, frame)
Replace(frame) == Append(Pop, frame)

Event(e, at, args, val) == [e |-> e, at |-> at, args |-> args, val |-> val]

(***************************************************************************)
(* Guest objects.  objs[ref] holds an object's own properties with their   *)
(* insertion order, or an array's elements.                                *)
(***************************************************************************)
PlainObject(keys, props) == [kind |-> "object", keys |-> keys, props |-> props]
ArrayObject(elements) == [kind |-> "array", keys |-> <<>>, props |-> elements]

\* obj[key] = value on a plain object.
PutProperty(o, key, value) ==
  PlainObject(IF key \in DOMAIN o.props THEN o.keys ELSE Append(o.keys, key),
              SetProperty(o.props, key, value))

\* The property key a computed `[expr]` names.
ToPropertyKey(x) == ToStringJS(x)

(***************************************************************************)
(* The host object: context.page, opaque to the interpreter.  The paths    *)
(* are the ones the scripts of the repository use.                         *)
(***************************************************************************)
HostMethods ==
  { <<"page", "goto">>, <<"page", "click">>, <<"page", "waitForTimeout">>,
    <<"page", "title">>, <<"page", "keyboard", "press">>, <<"page", "keyboard", "type">> }

HostObjects == { <<"page", "keyboard">> }

HostProxy(path) == [k |-> "proxy", v |-> path]
HostMethod(fullPath) == [k |-> "hostMethod", v |-> fullPath]

\* typeof target[propName], for the real target the proxy of `path` stands for.
HostTypeOf(fullPath) ==
  IF fullPath \in HostMethods THEN "function"
  ELSE IF fullPath \in HostObjects THEN "object"
  ELSE "undefined"

\* The get trap of createDynamicProxy(target, path).
createDynamicProxy(path, propName) ==
  LET fullPath == Append(path, propName)
  IN IF HostTypeOf(fullPath) = "function" THEN HostMethod(fullPath)
     ELSE IF HostTypeOf(fullPath) = "object" THEN HostProxy(fullPath)
     ELSE Undefined

RECURSIVE JoinWith(_, _)
\* pieces.join(sep)
JoinWith(pieces, sep) ==
  IF pieces = <<>> THEN ""
  ELSE IF Len(pieces) = 1 THEN pieces[1]
  ELSE pieces[1] \o sep \o JoinWith(Tail(pieces), sep)

\* A fullPath as createDynamicProxy builds it: `${path}.${propName}`.
Dotted(path) == JoinWith(path, ".")

(***************************************************************************)
(* JSON.stringify(x).  [ok, undef, text]: ok is FALSE when it throws       *)
(* (a BigInt, a circular structure), undef is TRUE when it returns         *)
(* undefined (undefined, a function).                                      *)
(***************************************************************************)
JsonText(text) == [ok |-> TRUE, undef |-> FALSE, text |-> text]
JsonUndefined == [ok |-> TRUE, undef |-> TRUE, text |-> ""]
JsonThrows(why) == [ok |-> FALSE, undef |-> FALSE, text |-> why]

RECURSIVE JSONStringify(_, _, _)
RECURSIVE JsonMembers(_, _, _, _)
RECURSIVE JsonElements(_, _, _, _)

\* The members of object ref from key number i on: [ok, texts].
JsonMembers(os, ref, i, seen) ==
  IF i > Len(os[ref].keys) THEN [ok |-> TRUE, texts |-> <<>>, why |-> ""]
  ELSE LET key == os[ref].keys[i]
           here == JSONStringify(os, os[ref].props[key], seen)
           rest == JsonMembers(os, ref, i + 1, seen)
       IN IF ~here.ok THEN [ok |-> FALSE, texts |-> <<>>, why |-> here.text]
          ELSE IF ~rest.ok THEN rest
          ELSE IF here.undef THEN rest
          ELSE [ok |-> TRUE, why |-> "",
                texts |-> <<"\"" \o key \o "\":" \o here.text>> \o rest.texts]

JsonElements(os, ref, i, seen) ==
  IF i > Len(os[ref].props) THEN [ok |-> TRUE, texts |-> <<>>, why |-> ""]
  ELSE LET here == JSONStringify(os, os[ref].props[i], seen)
           rest == JsonElements(os, ref, i + 1, seen)
       IN IF ~here.ok THEN [ok |-> FALSE, texts |-> <<>>, why |-> here.text]
          ELSE IF ~rest.ok THEN rest
          ELSE [ok |-> TRUE, why |-> "",
                texts |-> <<IF here.undef THEN "null" ELSE here.text>> \o rest.texts]

JSONStringify(os, x, seen) ==
  CASE x.k = "str" -> JsonText("\"" \o x.v \o "\"")
    [] x.k \in {"num", "frac", "bool"} -> JsonText(ToStringJS(x))
    [] x.k \in {"nan", "inf", "null"} -> JsonText("null")
    [] x.k \in {"undefined", "closure", "hostMethod", "native", "contextLog"} -> JsonUndefined
    [] x.k = "bigint" -> JsonThrows("Do not know how to serialize a BigInt")
    [] x.k \in {"error", "proxy"} -> JsonText("{}")
    [] x.k = "object" ->
         IF x.v \in seen THEN JsonThrows("Converting circular structure to JSON")
         ELSE LET m == JsonMembers(os, x.v, 1, seen \cup {x.v})
              IN IF m.ok THEN JsonText("{" \o JoinWith(m.texts, ",") \o "}")
                 ELSE JsonThrows(m.why)
    [] x.k = "array" ->
         IF x.v \in seen THEN JsonThrows("Converting circular structure to JSON")
         ELSE LET m == JsonElements(os, x.v, 1, seen \cup {x.v})
              IN IF m.ok THEN JsonText("[" \o JoinWith(m.texts, ",") \o "]")
                 ELSE JsonThrows(m.why)

RECURSIVE StringifyAll(_, _)
\* args.map(a => JSON.stringify(a)): [ok, texts], an undefined result joining as "".
StringifyAll(os, args) ==
  IF args = <<>> THEN [ok |-> TRUE, texts |-> <<>>, why |-> ""]
  ELSE LET here == JSONStringify(os, Head(args), {})
           rest == StringifyAll(os, Tail(args))
       IN IF ~here.ok THEN [ok |-> FALSE, texts |-> <<>>, why |-> here.text]
          ELSE IF ~rest.ok THEN rest
          ELSE [ok |-> TRUE, why |-> "", texts |-> <<here.text>> \o rest.texts]

\* The line the forwarding function writes with console.log.
CallingLine(fullPath, texts) ==
  "Calling " \o Dotted(fullPath) \o "(" \o JoinWith(texts, ", ") \o ")"

\* object[property] of evaluateMemberExpression: [ok, val].
GetMember(os, object, key) ==
  CASE object.k \in {"undefined", "null"} ->
         [ok |-> FALSE,
          val |-> TypeError(<<"Cannot read properties of ", object.k, " (reading '", key, "')">>)]
    [] object.k = "proxy" -> [ok |-> TRUE, val |-> createDynamicProxy(object.v, key)]
    [] object.k = "object" -> [ok |-> TRUE, val |-> GetProperty(os[object.v].props, key)]
    [] object.k = "array" ->
         [ok |-> TRUE,
          val |-> IF key = "length" THEN Num(Len(os[object.v].props))
                  ELSE IF \E n \in 1..Len(os[object.v].props) : ToString(n - 1) = key
                    THEN os[object.v].props[CHOOSE n \in 1..Len(os[object.v].props) :
                                              ToString(n - 1) = key]
                  ELSE Undefined]
    [] object.k = "error" ->
         [ok |-> TRUE,
          val |-> IF key = "message" THEN Str(Join(object.v.message))
                  ELSE IF key = "name" THEN Str(object.v.name)
                  ELSE IF key \in ObjectPrototypeKeys THEN Native("Error.prototype." \o key)
                  ELSE Undefined]

(***************************************************************************)
(* Source text.  A text is a sequence of pieces (a keyword, a run of       *)
(* blanks " ", the rest of a statement), fine enough for the prefix tests  *)
(* and the regular expressions of executeScript.  acorn is external: a     *)
(* piece of code carries the AST acorn.parse returns for it, or the        *)
(* SyntaxError it throws.                                                  *)
(***************************************************************************)
ParseError(message) == [type |-> "ParseError", message |-> message]
Code(text, ast) == [text |-> text, ast |-> ast]

RECURSIVE TrimStart(_)
TrimStart(text) ==
  IF text # <<>> /\ Head(text) = " " THEN TrimStart(Tail(text)) ELSE text

RECURSIVE TrimEnd(_)
TrimEnd(text) ==
  IF text # <<>> /\ text[Len(text)] = " "
    THEN TrimEnd(SubSeq(text, 1, Len(text) - 1)) ELSE text

\* String.prototype.trim
Trim(text) == TrimEnd(TrimStart(text))

\* The alternatives of the regular expression of line 761.
Keywords ==
  { "const", "let", "var", "function", "class", "import", "export", "if", "for",
    "while", "switch", "return", "try", "throw" }

RECURSIVE FirstPiece(_)
\* The first piece of scriptCode.trim(), "" for a text of blanks only.
FirstPiece(lines) ==
  IF lines = <<>> THEN ""
  ELSE IF Trim(Head(lines).text) # <<>> THEN Trim(Head(lines).text)[1]
  ELSE FirstPiece(Tail(lines))

\* A classification that takes a text starting with `const` for a fragment.
ConstStartsFragment(src) == FirstPiece(src.lines) \notin (Keywords \ {"const"})

\* const isFunctionBody = !scriptCode.trim().match(/^(const|let|...)/)
isFunctionBody(src) == FirstPiece(src.lines) \notin Keywords

RECURSIVE SkipBlanks(_, _)
\* The index of the first piece from i on that is not blank (\s*).
SkipBlanks(text, i) ==
  IF i <= Len(text) /\ text[i] = " " THEN SkipBlanks(text, i + 1) ELSE i

\* trimmedLine.match(/const\s*{.*}\s*=\s*ctx/)
MatchesCtxDestructuring(text) ==
  \E i, j \in 1..Len(text) :
    /\ text[i] = "const"
    /\ LET open == SkipBlanks(text, i + 1)
           eq == SkipBlanks(text, j + 1)
           ctx == SkipBlanks(text, eq + 1)
       IN /\ open < j
          /\ text[open] = "{"
          /\ text[j] = "}"
          /\ eq <= Len(text) /\ text[eq] = "="
          /\ ctx <= Len(text) /\ text[ctx] = "ctx"

\* trimmedLine.startsWith('await ')
StartsWithAwait(text) == Len(text) >= 2 /\ text[1] = "await" /\ text[2] = " "

\* `(async () => { return ${expression}; })()` and what acorn makes of it.
WrappedCode(line) ==
  LET expression == SubSeq(Trim(line.text), 3, Len(Trim(line.text)))
      stmt == IF line.ast.type = "Program" /\ Len(line.ast.body) = 1
                THEN line.ast.body[1] ELSE NoNode
  IN Code(<<"(async () => { return ">> \o expression \o <<"; })()">>,
          IF stmt.type = "ExpressionStatement" /\ stmt.expression.type = "AwaitExpression"
            THEN Program(<<ExprStmt(Call(Arrow(<<>>,
                   Block(<<Return(stmt.expression.argument)>> \o
                         \* `return e;;` when the line ends with a semicolon
                         (IF expression[Len(expression)] = ";"
                            THEN <<[type |-> "EmptyStatement"]>> ELSE <<>>))), <<>>))>>)
            ELSE ParseError("Unexpected token"))

\* A parser that hands on whatever it is given.
LenientParse(code) == [ok |-> TRUE, val |-> code.ast]

\* parseScript(code): [ok, val], val the AST or the Error it throws.
parseScript(code) ==
  IF code.ast.type = "ParseError"
    THEN [ok |-> FALSE, val |-> Err(<<"Failed to parse script: ", code.ast.message>>)]
    ELSE [ok |-> TRUE, val |-> code.ast]

\* error instanceof Error ? error.message : String(error)
MessageOf(error) ==
  IF error.k = "error" THEN Join(error.v.message) ELSE ToStringJS(error)

(***************************************************************************)
(* new Interpreter(context): the global environment.                       *)
(***************************************************************************)
GlobalNatives ==
  { "console", "setTimeout", "clearTimeout", "String", "Number", "Boolean", "Array",
    "Object", "Date", "RegExp", "Math", "JSON", "Promise", "parseInt", "parseFloat",
    "isNaN", "isFinite", "encodeURIComponent", "decodeURIComponent" }

GlobalVariables ==
  [n \in {"page", "log"} \cup GlobalNatives |->
     IF n = "page" THEN HostProxy(<<"page">>)
     ELSE IF n = "log" THEN ContextLog
     ELSE Native(n)]

\* One global environment kept for every Interpreter made.
SingletonInterpreter(es) ==
  IF es = <<>> THEN [envs |-> Alloc(es, GlobalVariables, 0), globalEnv |-> 1]
  ELSE [envs |-> es, globalEnv |-> 1]

\* new Interpreter(context) with the Environments es already made: the
\* Environments afterwards and the new object's field globalEnv.
Interpreter(es) == [envs |-> Alloc(es, GlobalVariables, 0), globalEnv |-> NewEnv(es)]

\* this.globalEnv
globalEnv == interpreter.globalEnv

(***************************************************************************)
(* The source texts handed to executeScript, each with what acorn makes of *)
(* it (of the whole text for a complete program, of each line for a        *)
(* fragment).                                                               *)
(***************************************************************************)
Source(name, lines, ast) == [name |-> name, lines |-> lines, ast |-> ast]

\* A complete program, its text cut after the leading keyword.
Complete(name, keyword, rest, body) ==
  Source(name, <<Code(<<keyword, rest>>, NoNode)>>, Program(body))

\* A fragment: the whole text is never parsed.
Fragment(name, lines) == Source(name, lines, NoNode)

N(n) == Lit(Num(n))
T(s) == Lit(Str(s))
LogCall(arg) == Call(Id("log"), <<arg>>)
Log(arg) == ExprStmt(LogCall(arg))
\* page.<method>(arg)
HostCall(method, arg) == Call(Member(Id("page"), method), <<arg>>)
\* page.keyboard.<method>(arg)
KeyboardCall(method, arg) ==
  Call(Member(Member(Id("page"), "keyboard"), method), <<arg>>)
Catching(name, body) == CatchClause(Id(name), Block(body))
LogMessage(name) == Log(Member(Id(name), "message"))

\* "\n const { page, log } = ctx;\n log('Navigating');\n await page.goto('u');"
ContextFirst ==
  Source("context-first",
    << Code(<<" ">>, NoNode),
       Code(<<" ", "const", " ", "{", " page, log ", "}", " ", "=", " ", "ctx", ";">>,
            NoNode),
       Code(<<" ", "log", "('Navigating')", ";">>, NoNode),
       Code(<<" ", "await", " ", "page.goto('u')", ";">>, NoNode) >>,
    Program(<< VarDecl(<<Declarator(
                 ObjectPattern(<< PatProp(Id("page"), Id("page"), FALSE),
                                  PatProp(Id("log"), Id("log"), FALSE) >>),
                 Id("ctx"))>>),
               Log(T("Navigating")),
               ExprStmt(Await(HostCall("goto", T("u")))) >>))

\* const o = {n: 1, twice: (a) => { return a + a }}; log(o.twice(2));
\* log(o.toString()); try { o.hasOwnProperty('n') } catch (e) { log(e.message) }
\* page.keyboard.type('k');
Receiver ==
  Complete("receiver", "const",
    " o = {n: 1, twice: (a) => { return a + a }}; log(o.twice(2)); ...",
    << Let("o", ObjectExpr(<< ObjProp("n", N(1)),
                              ObjProp("twice",
                                Arrow(<<Id("a")>>,
                                      Block(<<Return(Binary("+", Id("a"), Id("a")))>>))) >>)),
       Log(Call(Member(Id("o"), "twice"), <<N(2)>>)),
       Log(Call(Member(Id("o"), "toString"), <<>>)),
       Try(Block(<<ExprStmt(Call(Member(Id("o"), "hasOwnProperty"), <<T("n")>>))>>),
           Catching("e", <<LogMessage("e")>>),
           NoNode),
       ExprStmt(KeyboardCall("type", T("k"))) >>)

\* The body of scripts/github.ts as a remote script carries it, a line broken.
GithubSearch ==
  Fragment("github-search",
    << Code(<<"//", " Navigate to GitHub">>, NoNode),
       Code(<<" ", "const", " ", "{", " page, log ", "}", " ", "=", " ", "ctx", ";">>,
            NoNode),
       Code(<<" ", " ">>, NoNode),
       Code(<<" ", "log", "('Navigating')", ";">>,
            Program(<<Log(T("Navigating"))>>)),
       Code(<<" ", "await", " ", "page.goto('https://github.com/')", ";">>,
            Program(<<ExprStmt(Await(HostCall("goto", T("https://github.com/"))))>>)),
       Code(<<" ", "await", " ", "page.keyboard.press('/')", ";">>,
            Program(<<ExprStmt(Await(KeyboardCall("press", T("/"))))>>)),
       Code(<<"log", "('Typing'">>, ParseError("Unexpected token (1:13)")),
       Code(<<"title", " ", "=", " ", "await", " ", "page.title()", ";">>,
            Program(<<ExprStmt(Assign("=", Id("title"),
                                      Await(Call(Member(Id("page"), "title"), <<>>))))>>)),
       Code(<<"log", "(title)", ";">>, Program(<<Log(Id("title"))>>)) >>)

\* "await page.click('#a')\nawait page.click('#b')"
TwoClicks ==
  Fragment("two-clicks",
    << Code(<<"await", " ", "page.click('#a')">>,
            Program(<<ExprStmt(Await(HostCall("click", T("#a"))))>>)),
       Code(<<"await", " ", "page.click('#b')">>,
            Program(<<ExprStmt(Await(HostCall("click", T("#b"))))>>)) >>)

\* The same two statements as a complete program.
TwoClicksProgram ==
  Complete("two-clicks-program", "const",
    " a = await page.click('#a'); await page.click('#b'); log('end');",
    << Let("a", Await(HostCall("click", T("#a")))),
       ExprStmt(Await(HostCall("click", T("#b")))),
       Log(T("end")) >>)

\* let r = log(page.title(), page.goto('u')); page.keyboard.type(log('k'));
\* log('a')(log('b'), log('c')); log('never');
Ordering ==
  Complete("ordering", "let",
    " r = log(page.title(), page.goto('u')); ...",
    << Let("r", Call(Id("log"), << Call(Member(Id("page"), "title"), <<>>),
                                   HostCall("goto", T("u")) >>)),
       ExprStmt(KeyboardCall("type", LogCall(T("k")))),
       ExprStmt(Call(LogCall(T("a")), <<LogCall(T("b")), LogCall(T("c"))>>)),
       Log(T("never")) >>)

\* function make() { let c = 0; return () => { c = c + 1; return c; }; }
\* const inc = make(); log(inc()); log(inc());
\* function g() { return y; }  function h() { let y = 7; return g(); }  log(h());
Closures ==
  Complete("closures", "function",
    " make() { let c = 0; return () => { c = c + 1; return c; }; } ...",
    << FuncDecl("make", <<>>,
         Block(<< Let("c", N(0)),
                  Return(Arrow(<<>>,
                    Block(<< ExprStmt(Assign("=", Id("c"), Binary("+", Id("c"), N(1)))),
                             Return(Id("c")) >>))) >>)),
       Let("inc", Call(Id("make"), <<>>)),
       Log(Call(Id("inc"), <<>>)),
       Log(Call(Id("inc"), <<>>)),
       FuncDecl("g", <<>>, Block(<<Return(Id("y"))>>)),
       FuncDecl("h", <<>>, Block(<<Let("y", N(7)), Return(Call(Id("g"), <<>>))>>)),
       Log(Call(Id("h"), <<>>)) >>)

\* let x = 1; function f(){ x += 1; return x; } log(f()); log(f());
\* function u(n) { let x = 10; x++; n--; return x + n; } log(u(5)); log(x);
\* try { q -= 1 } catch (e) { log(e.message) }  try { w++ } catch (e) { log(e.message) }
\* fresh = 3; log(fresh);
Mutation ==
  Complete("mutation", "let",
    " x = 1; function f(){ x += 1; return x; } f(); f(); ...",
    << Let("x", N(1)),
       FuncDecl("f", <<>>, Block(<< ExprStmt(Assign("+=", Id("x"), N(1))),
                                    Return(Id("x")) >>)),
       Log(Call(Id("f"), <<>>)),
       Log(Call(Id("f"), <<>>)),
       FuncDecl("u", <<Id("n")>>,
         Block(<< Let("x", N(10)),
                  ExprStmt(Update("++", FALSE, Id("x"))),
                  ExprStmt(Update("--", TRUE, Id("n"))),
                  Return(Binary("+", Id("x"), Id("n"))) >>)),
       Log(Call(Id("u"), <<N(5)>>)),
       Log(Id("x")),
       Try(Block(<<ExprStmt(Assign("-=", Id("q"), N(1)))>>),
           Catching("e", <<LogMessage("e")>>), NoNode),
       Try(Block(<<ExprStmt(Update("++", FALSE, Id("w")))>>),
           Catching("e", <<LogMessage("e")>>), NoNode),
       ExprStmt(Assign("=", Id("fresh"), N(3))),
       Log(Id("fresh")) >>)

\* let n = 0; function bump() { valueOf++; n += 1; } bump(); toString += 1; log(n);
Inherited ==
  Complete("inherited", "let",
    " n = 0; function bump() { valueOf++; n += 1; } bump(); toString += 1; log(n);",
    << Let("n", N(0)),
       FuncDecl("bump", <<>>, Block(<< ExprStmt(Update("++", FALSE, Id("valueOf"))),
                                       ExprStmt(Assign("+=", Id("n"), N(1))) >>)),
       ExprStmt(Call(Id("bump"), <<>>)),
       ExprStmt(Assign("+=", Id("toString"), N(1))),
       Log(Id("n")) >>)

\* try { throw new Error('x') } catch(e) { log(e.message) } finally { log('done') }
TryThrow ==
  Complete("try-throw", "try",
    " { throw new Error('x') } catch(e) { log(e.message) } finally { log('done') }",
    << Try(Block(<<ThrowStmt(New(Id("Error"), <<T("x")>>))>>),
           Catching("e", <<LogMessage("e")>>),
           Block(<<Log(T("done"))>>)) >>)

\* try { log('tried') } catch(e) { log(e.message) } finally { log('done') }
TryQuiet ==
  Complete("try-quiet", "try",
    " { log('tried') } catch(e) { log(e.message) } finally { log('done') }",
    << Try(Block(<<Log(T("tried"))>>),
           Catching("e", <<LogMessage("e")>>),
           Block(<<Log(T("done"))>>)) >>)

\* try { await page.click('#a') } catch(e) { log(e.message) } finally { log('done') }
TryHost ==
  Complete("try-host", "try",
    " { await page.click('#a') } catch(e) { log(e.message) } finally { log('done') }",
    << Try(Block(<<ExprStmt(Await(HostCall("click", T("#a"))))>>),
           Catching("e", <<LogMessage("e")>>),
           Block(<<Log(T("done"))>>)) >>)

\* const {a, b: c} = {a: 5, b: 6}; const [d, , e] = [1, 2, 3], z;
\* log(a); log(c); log(d); log(e); log(z); const {p: {q}} = {p: {q: 1}}; log('never');
Destructuring ==
  Complete("destructuring", "const",
    " {a, b: c} = {a: 5, b: 6}; const [d, , e] = [1, 2, 3], z; ...",
    << VarDecl(<<Declarator(
         ObjectPattern(<< PatProp(Id("a"), Id("a"), FALSE),
                          PatProp(Id("b"), Id("c"), FALSE) >>),
         ObjectExpr(<<ObjProp("a", N(5)), ObjProp("b", N(6))>>))>>),
       VarDecl(<< Declarator(ArrayPattern(<<Id("d"), NoNode, Id("e")>>),
                             ArrayExpr(<<N(1), N(2), N(3)>>)),
                  Declarator(Id("z"), NoNode) >>),
       Log(Id("a")), Log(Id("c")), Log(Id("d")), Log(Id("e")), Log(Id("z")),
       VarDecl(<<Declarator(
         ObjectPattern(<<PatProp(Id("p"),
                                 ObjectPattern(<<PatProp(Id("q"), Id("q"), FALSE)>>),
                                 FALSE)>>),
         ObjectExpr(<<ObjProp("p", ObjectExpr(<<ObjProp("q", N(1))>>))>>))>>),
       Log(T("never")) >>)

\* const [m = 1] = []; log('never');
DestructuringDefault ==
  Complete("destructuring-default", "const", " [m = 1] = []; log('never');",
    << VarDecl(<<Declarator(ArrayPattern(<<AssignmentPattern(Id("m"), N(1))>>),
                            ArrayExpr(<<>>))>>),
       Log(T("never")) >>)

\* const k = 'a'; const {[k]: v} = {a: 5, k: 7}; log(v);
DestructuringComputed ==
  Complete("destructuring-computed", "const",
    " k = 'a'; const {[k]: v} = {a: 5, k: 7}; log(v);",
    << Let("k", T("a")),
       VarDecl(<<Declarator(
         ObjectPattern(<<PatProp(Id("k"), Id("v"), TRUE)>>),
         ObjectExpr(<<ObjProp("a", N(5)), ObjProp("k", N(7))>>))>>),
       Log(Id("v")) >>)

\* const {a, ...rest} = {a: 1, b: 2}; log(a);
DestructuringRest ==
  Complete("destructuring-rest", "const", " {a, ...rest} = {a: 1, b: 2}; log(a);",
    << VarDecl(<<Declarator(
         ObjectPattern(<<PatProp(Id("a"), Id("a"), FALSE), RestElement(Id("rest"))>>),
         ObjectExpr(<<ObjProp("a", N(1)), ObjProp("b", N(2))>>))>>),
       Log(Id("a")) >>)

\* function first(n) { for (let i = 0; i < n; i++) { log(i); if (i == 1) { return 'found'; } }
\*                     return 'none'; }
\* log(first(5)); log(first(1));
\* function w() { let j = 0; while (j < 3) { j += 1; if (j == 2) return j; } }  log(w());
\* function once() { for (;;) { return 'once'; } }  log(once());
\* let k = 0; while (k < 2) k++; log(k);
Loops ==
  Complete("loops", "function",
    " first(n) { for (let i = 0; i < n; i++) { log(i); if (i == 1) { return 'found'; } } ...",
    << FuncDecl("first", <<Id("n")>>,
         Block(<< For(Let("i", N(0)), Binary("<", Id("i"), Id("n")),
                      Update("++", FALSE, Id("i")),
                      Block(<< Log(Id("i")),
                               If(Binary("==", Id("i"), N(1)),
                                  Block(<<Return(T("found"))>>), NoNode) >>)),
                  Return(T("none")) >>)),
       Log(Call(Id("first"), <<N(5)>>)),
       Log(Call(Id("first"), <<N(1)>>)),
       FuncDecl("w", <<>>,
         Block(<< Let("j", N(0)),
                  While(Binary("<", Id("j"), N(3)),
                        Block(<< ExprStmt(Assign("+=", Id("j"), N(1))),
                                 If(Binary("==", Id("j"), N(2)),
                                    Return(Id("j")), NoNode) >>)) >>)),
       Log(Call(Id("w"), <<>>)),
       FuncDecl("once", <<>>,
         Block(<<For(NoNode, NoNode, NoNode, Block(<<Return(T("once"))>>))>>)),
       Log(Call(Id("once"), <<>>)),
       Let("k", N(0)),
       While(Binary("<", Id("k"), N(2)), ExprStmt(Update("++", FALSE, Id("k")))),
       Log(Id("k")) >>)

\* const o = {n: 1, ['k' + 1]: 2}; o.n++; o['n'] += 2; --o.n; log(o.n); log(o.k1);
\* o.m = [1, , 3]; log(o.m.length); log(typeof o.m[1]); log(!o.missing); log(-o.n);
Members ==
  Complete("members", "const",
    " o = {n: 1, ['k' + 1]: 2}; o.n++; o['n'] += 2; --o.n; log(o.n); ...",
    << Let("o", ObjectExpr(<< ObjProp("n", N(1)),
                              [type |-> "Property", key |-> Binary("+", T("k"), N(1)),
                               value |-> N(2), computed |-> TRUE] >>)),
       ExprStmt(Update("++", FALSE, Member(Id("o"), "n"))),
       ExprStmt(Assign("+=", Index(Id("o"), T("n")), N(2))),
       ExprStmt(Update("--", TRUE, Member(Id("o"), "n"))),
       Log(Member(Id("o"), "n")),
       Log(Member(Id("o"), "k1")),
       ExprStmt(Assign("=", Member(Id("o"), "m"), ArrayExpr(<<N(1), NoNode, N(3)>>))),
       Log(Member(Member(Id("o"), "m"), "length")),
       Log(Unary("typeof", Index(Member(Id("o"), "m"), N(1)))),
       Log(Unary("!", Member(Id("o"), "missing"))),
       Log(Unary("-", Member(Id("o"), "n"))) >>)

\* page.keyboard.type('hello', {delay: 1})
\* page.waitForTimeout(1n)
\* loop = {}
\* loop.self = loop
\* page.click(loop)
\* page.goto('https://example.com/')
HostArguments ==
  Fragment("host-arguments",
    << Code(<<"page.keyboard.type('hello', {delay: 1})">>,
            Program(<<ExprStmt(Call(Member(Member(Id("page"), "keyboard"), "type"),
                         <<T("hello"), ObjectExpr(<<ObjProp("delay", N(1))>>)>>))>>)),
       Code(<<"page.waitForTimeout(1n)">>,
            Program(<<ExprStmt(HostCall("waitForTimeout", Lit(BigInt(1))))>>)),
       Code(<<"loop", " ", "=", " ", "{}">>,
            Program(<<ExprStmt(Assign("=", Id("loop"), ObjectExpr(<<>>)))>>)),
       Code(<<"loop.self", " ", "=", " ", "loop">>,
            Program(<<ExprStmt(Assign("=", Member(Id("loop"), "self"), Id("loop")))>>)),
       Code(<<"page.click(loop)">>,
            Program(<<ExprStmt(HostCall("click", Id("loop")))>>)),
       Code(<<"page.goto('https://example.com/')">>,
            Program(<<ExprStmt(HostCall("goto", T("https://example.com/")))>>)) >>)

\* let = ;
Unparsable ==
  Source("unparsable", <<Code(<<"let", " = ;">>, NoNode)>>,
         ParseError("Unexpected token (1:4)"))

\* A node of a kind the builders above do not make.
Node(type) == [type |-> type]

\* log('start')
\* n = 0
\* while (n < 2) { n++; if (n == 1) continue; log(n); }
\* for (;;) { log('in'); break; }
\* switch (n) { case 1: log('one') }
\* class A {}
\* log(new Date())
\* throw 'x'
\* ;
\* log(this)
\* log('end')
Unsupported ==
  Fragment("unsupported",
    << Code(<<"log", "('start')">>, Program(<<Log(T("start"))>>)),
       Code(<<"n", " ", "=", " ", "0">>, Program(<<ExprStmt(Assign("=", Id("n"), N(0)))>>)),
       Code(<<"while", " ", "(n < 2) { n++; if (n == 1) continue; log(n); }">>,
            Program(<<While(Binary("<", Id("n"), N(2)),
                        Block(<< ExprStmt(Update("++", FALSE, Id("n"))),
                                 If(Binary("==", Id("n"), N(1)),
                                    Node("ContinueStatement"), NoNode),
                                 Log(Id("n")) >>))>>)),
       Code(<<"for", " ", "(;;) { log('in'); break; }">>,
            Program(<<For(NoNode, NoNode, NoNode,
                          Block(<<Log(T("in")), Node("BreakStatement")>>))>>)),
       Code(<<"switch", " ", "(n) { case 1: log('one') }">>,
            Program(<<[type |-> "SwitchStatement", discriminant |-> Id("n"),
                       cases |-> <<[type |-> "SwitchCase", test |-> N(1),
                                    consequent |-> <<Log(T("one"))>>]>>]>>)),
       Code(<<"class", " ", "A {}">>,
            Program(<<[type |-> "ClassDeclaration", id |-> Id("A")]>>)),
       Code(<<"log", "(new Date())">>, Program(<<Log(New(Id("Date"), <<>>))>>)),
       Code(<<"throw", " 'x'">>, Program(<<ThrowStmt(T("x"))>>)),
       Code(<<";">>, Program(<<Node("EmptyStatement")>>)),
       Code(<<"log", "(this)">>, Program(<<Log(Node("ThisExpression"))>>)),
       Code(<<"log", "('end')">>, Program(<<Log(T("end"))>>)) >>)

\* const a = 0 || 'x'; const b = a && null; const c = b ?? `${a}-${1 + 1}`;
\* log(c); log(a ? 'yes' : 'no'); log(b ? 'yes' : 'no'); log(`plain`); log(0 && log('never'));
Expressions ==
  Complete("expressions", "const",
    " a = 0 || 'x'; const b = a && null; ...",
    << Let("a", Logical("||", N(0), T("x"))),
       Let("b", Logical("&&", Id("a"), Lit(Null))),
       Let("c", Logical("??", Id("b"),
                        Template(<<TemplateElement(""), TemplateElement("-"),
                                   TemplateElement("")>>,
                                 <<Id("a"), Binary("+", N(1), N(1))>>))),
       Log(Id("c")),
       Log(Conditional(Id("a"), T("yes"), T("no"))),
       Log(Conditional(Id("b"), T("yes"), T("no"))),
       Log(Template(<<TemplateElement("plain")>>, <<>>)),
       Log(Logical("&&", N(0), LogCall(T("never")))) >>)

\* log(typeof page)
\* log(parameters.query)
\* await page.goto(parameters.query)
Parameters ==
  Fragment("parameters",
    << Code(<<"log", "(typeof page)">>, Program(<<Log(Unary("typeof", Id("page")))>>)),
       Code(<<"log", "(parameters.query)">>,
            Program(<<Log(Member(Id("parameters"), "query"))>>)),
       Code(<<"await", " ", "page.goto(parameters.query)">>,
            Program(<<ExprStmt(Await(HostCall("goto", Member(Id("parameters"),
                                                             "query"))))>>)) >>)

\* secret = 'a'
\* await page.click('#a')
\* log(secret)
IsolationA ==
  Fragment("isolation-a",
    << Code(<<"secret", " ", "=", " ", "'a'">>,
            Program(<<ExprStmt(Assign("=", Id("secret"), T("a")))>>)),
       Code(<<"await", " ", "page.click('#a')">>,
            Program(<<ExprStmt(Await(HostCall("click", T("#a"))))>>)),
       Code(<<"log", "(secret)">>, Program(<<Log(Id("secret"))>>)) >>)

\* await page.goto('b')
\* log(secret)
\* let secret = 'b'
\* await page.click('#b')
\* log(secret)
IsolationB ==
  Source("isolation-b",
    << Code(<<"await", " ", "page.goto('b')">>,
            Program(<<ExprStmt(Await(HostCall("goto", T("b"))))>>)),
       Code(<<"log", "(secret)">>, Program(<<Log(Id("secret"))>>)),
       Code(<<"let", " ", "secret = 'b'">>, Program(<<Let("secret", T("b"))>>)),
       Code(<<"await", " ", "page.click('#b')">>,
            Program(<<ExprStmt(Await(HostCall("click", T("#b"))))>>)),
       Code(<<"log", "(secret)">>, Program(<<Log(Id("secret"))>>)) >>, NoNode)

\* The arithmetic operators of the guest language.
ArithmeticOperators == {"+", "-", "*", "/", "%", "**"}

\* The largest magnitude of an operand of a generated expression.
MaxOperand == 3

Operands == { Num(n) : n \in -1..MaxOperand }

\* What acorn makes of a numeral or a quoted string: a negative numeral is the
\* negation of a literal.
Operand(x) ==
  IF x.k = "num" /\ x.v < 0 THEN Unary("-", N(-x.v)) ELSE Lit(x)

\* (a inner b) outer c, a outer (b inner c), inner (a outer b).
Expression(input) ==
  CASE input.shape = "left" ->
         Binary(input.outer, Binary(input.inner, Operand(input.a), Operand(input.b)),
                Operand(input.c))
    [] input.shape = "right" ->
         Binary(input.outer, Operand(input.a),
                Binary(input.inner, Operand(input.b), Operand(input.c)))
    [] input.shape = "unary" ->
         Unary(input.inner, Binary(input.outer, Operand(input.a), Operand(input.b)))

RECURSIVE ExpressionText(_)
\* The expression spelled out, every operation in parentheses.
ExpressionText(node) ==
  CASE node.type = "Literal" ->
         IF node.value.k = "str" THEN <<"'" \o node.value.v \o "'">>
                                 ELSE <<ToString(node.value.v)>>
    [] node.type = "UnaryExpression" ->
         <<"(", node.operator>> \o ExpressionText(node.argument) \o <<")">>
    [] node.type = "BinaryExpression" ->
         <<"(">> \o ExpressionText(node.left) \o <<" ", node.operator, " ">>
                 \o ExpressionText(node.right) \o <<")">>

\* The expressions tried: the exponent of a ** is kept an integer or NaN.
Inputs ==
  { input \in [ shape : {"left", "right"}, outer : ArithmeticOperators,
                inner : ArithmeticOperators, a : Operands, b : Operands,
                c : Operands \cup {Str("s")} ] :
      (input.shape = "right" /\ input.outer = "**") => input.inner \in {"+", "-", "*", "%"} }
  \cup [ shape : {"unary"}, outer : ArithmeticOperators, inner : {"-", "+"},
         a : Operands, b : Operands, c : {Num(0)} ]

NoInput == [shape |-> "none", outer |-> "", inner |-> "", a |-> Undefined,
            b |-> Undefined, c |-> Undefined]

\* A one-line fragment: the expression as an expression statement.
Arithmetic(input) ==
  Fragment("arithmetic",
    IF input = NoInput THEN <<>>
    ELSE <<Code(ExpressionText(Expression(input)),
                Program(<<ExprStmt(Expression(input))>>))>>)

\* A text whose first identifier begins with the letters of `for`, cut after
\* them; its second line looks up a name nobody defined.
KeywordPrefix ==
  Source("keyword-prefix",
    << Code(<<"for", "mId", " ", "=", " ", "'#a'">>,
            Program(<<ExprStmt(Assign("=", Id("formId"), T("#a")))>>)),
       Code(<<"await", " ", "page.click(missing)">>,
            Program(<<ExprStmt(Await(HostCall("click", Id("missing"))))>>)),
       Code(<<"await", " ", "page.click(formId)">>,
            Program(<<ExprStmt(Await(HostCall("click", Id("formId"))))>>)) >>,
    Program(<< ExprStmt(Assign("=", Id("formId"), T("#a"))),
               ExprStmt(Await(HostCall("click", Id("missing")))),
               ExprStmt(Await(HostCall("click", Id("formId")))) >>))

\* A fragment with lines that mention the destructuring of the context next
\* to something else: after a log call, and inside a string.
SkippedLines ==
  Fragment("skipped-lines",
    << Code(<<"log", "('start')">>, Program(<<Log(T("start"))>>)),
       Code(<<"log", "('a')", ";", " ", "const", " ", "{", " page ", "}", " ", "=", " ",
              "ctx", ";">>,
            Program(<< Log(T("a")),
                       VarDecl(<<Declarator(
                         ObjectPattern(<<PatProp(Id("page"), Id("page"), FALSE)>>),
                         Id("ctx"))>>) >>)),
       Code(<<"log", "('", "const", " ", "{", "page", "}", " ", "=", " ", "ctx", "')">>,
            Program(<<Log(T("const {page} = ctx"))>>)),
       Code(<<"log", "('end')">>, Program(<<Log(T("end"))>>)) >>)

\* function inTry() { try { if (true) { return 'try'; } log('never') }
\*                     catch (e) { log('c1') } finally { log('f1') } return 'end1' }
\* log(inTry());
\* function inCatch() { try { missing } catch (e) { for (;;) { return 'catch'; } }
\*                      finally { log('f2') } return 'end2' }
\* log(inCatch());
\* function inFinally() { try { log('t3') } finally { return 'finally' }
\*                        log('after3'); return 'end3' }
\* log(inFinally());
Returns ==
  Complete("returns", "function",
    " inTry() { try { if (true) { return 'try'; } log('never') } catch (e) ...",
    << FuncDecl("inTry", <<>>,
         Block(<< Try(Block(<< If(Lit(Bool(TRUE)), Block(<<Return(T("try"))>>), NoNode),
                               Log(T("never")) >>),
                      Catching("e", <<Log(T("c1"))>>),
                      Block(<<Log(T("f1"))>>)),
                  Return(T("end1")) >>)),
       Log(Call(Id("inTry"), <<>>)),
       FuncDecl("inCatch", <<>>,
         Block(<< Try(Block(<<ExprStmt(Id("missing"))>>),
                      Catching("e", <<For(NoNode, NoNode, NoNode,
                                          Block(<<Return(T("catch"))>>))>>),
                      Block(<<Log(T("f2"))>>)),
                  Return(T("end2")) >>)),
       Log(Call(Id("inCatch"), <<>>)),
       FuncDecl("inFinally", <<>>,
         Block(<< Try(Block(<<Log(T("t3"))>>), NoNode, Block(<<Return(T("finally"))>>)),
                  Log(T("after3")),
                  Return(T("end3")) >>)),
       Log(Call(Id("inFinally"), <<>>)) >>)

\* No source text: the AST a caller of Interpreter.execute builds by hand (or
\* gets from a parser that allows `return` outside a function),
\* return 'r'; log('after'); 'last'
DirectProgram ==
  Source("direct-program", <<>>,
    Program(<<Return(T("r")), Log(T("after")), ExprStmt(T("last"))>>))

\* function returns() { try { return 'r1' } finally { log('f1') } }
\* log(returns());
\* function uncaught() { try { missing } finally { log('f2') } log('never2') }
\* try { uncaught() } catch (e) { log(e.message) }
\* function catchThrows() { try { missing } catch (e) { log('c3'); null.x }
\*                          finally { log('f3') } }
\* try { catchThrows() } catch (e) { log(e.message) } finally { log('f4') }
\* try { log('t5') } finally { log('f5') }
TryPaths ==
  Complete("try-paths", "function",
    " returns() { try { return 'r1' } finally { log('f1') } } log(returns()); ...",
    << FuncDecl("returns", <<>>,
         Block(<<Try(Block(<<Return(T("r1"))>>), NoNode, Block(<<Log(T("f1"))>>))>>)),
       Log(Call(Id("returns"), <<>>)),
       FuncDecl("uncaught", <<>>,
         Block(<< Try(Block(<<ExprStmt(Id("missing"))>>), NoNode, Block(<<Log(T("f2"))>>)),
                  Log(T("never2")) >>)),
       Try(Block(<<ExprStmt(Call(Id("uncaught"), <<>>))>>),
           Catching("e", <<LogMessage("e")>>), NoNode),
       FuncDecl("catchThrows", <<>>,
         Block(<<Try(Block(<<ExprStmt(Id("missing"))>>),
                     Catching("e", <<Log(T("c3")), ExprStmt(Member(Lit(Null), "x"))>>),
                     Block(<<Log(T("f3"))>>))>>)),
       Try(Block(<<ExprStmt(Call(Id("catchThrows"), <<>>))>>),
           Catching("e", <<LogMessage("e")>>),
           Block(<<Log(T("f4"))>>)),
       Try(Block(<<Log(T("t5"))>>), NoNode, Block(<<Log(T("f5"))>>)) >>)

\* let e = 'outer';
\* try { missing } catch (e) { log(e.message); e = 'inner' }  log(e);
\* try { null.x } catch (err) { log(err.message) }
\* try { e() } catch (err) { log(err.message) }
\* try { throw 'x' } catch (err) { log(err.message) }
\* try { await page.click('#a'); log('clicked') } catch (err) { log(err.message) }
\* try { missing } catch { log('no parameter') }
\* function f() { try { return 'r' } catch (err) { log('never') } }  log(f());
\* log('end')
CatchKinds ==
  Complete("catch-kinds", "let",
    " e = 'outer'; try { missing } catch (e) { log(e.message); e = 'inner' } log(e); ...",
    << Let("e", T("outer")),
       Try(Block(<<ExprStmt(Id("missing"))>>),
           Catching("e", <<LogMessage("e"), ExprStmt(Assign("=", Id("e"), T("inner")))>>),
           NoNode),
       Log(Id("e")),
       Try(Block(<<ExprStmt(Member(Lit(Null), "x"))>>),
           Catching("err", <<LogMessage("err")>>), NoNode),
       Try(Block(<<ExprStmt(Call(Id("e"), <<>>))>>),
           Catching("err", <<LogMessage("err")>>), NoNode),
       Try(Block(<<ThrowStmt(T("x"))>>),
           Catching("err", <<LogMessage("err")>>), NoNode),
       Try(Block(<<ExprStmt(Await(HostCall("click", T("#a")))), Log(T("clicked"))>>),
           Catching("err", <<LogMessage("err")>>), NoNode),
       Try(Block(<<ExprStmt(Id("missing"))>>),
           CatchClause(NoNode, Block(<<Log(T("no parameter"))>>)), NoNode),
       FuncDecl("f", <<>>,
         Block(<<Try(Block(<<Return(T("r"))>>),
                     Catching("err", <<Log(T("never"))>>), NoNode)>>)),
       Log(Call(Id("f"), <<>>)),
       Log(T("end")) >>)

\* let x = 'outer';
\* { let x = 'inner'; let y = 'block'; function g() { return 'g' } log(x); log(g()); }
\* log(x);
\* try { log(y) } catch (e) { log(e.message) }
\* try { g() } catch (e) { log(e.message) }
\* function f() { var x = 'f'; return x }
\* log(f()); log(x);
\* if (true) { var v = 'var' }
\* try { log(v) } catch (e) { log(e.message) }
Scoping ==
  Complete("scoping", "let",
    " x = 'outer'; { let x = 'inner'; let y = 'block'; function g() { return 'g' } ...",
    << Let("x", T("outer")),
       Block(<< Let("x", T("inner")), Let("y", T("block")),
                FuncDecl("g", <<>>, Block(<<Return(T("g"))>>)),
                Log(Id("x")), Log(Call(Id("g"), <<>>)) >>),
       Log(Id("x")),
       Try(Block(<<Log(Id("y"))>>), Catching("e", <<LogMessage("e")>>), NoNode),
       Try(Block(<<ExprStmt(Call(Id("g"), <<>>))>>), Catching("e", <<LogMessage("e")>>),
           NoNode),
       FuncDecl("f", <<>>, Block(<<Let("x", T("f")), Return(Id("x"))>>)),
       Log(Call(Id("f"), <<>>)),
       Log(Id("x")),
       If(Lit(Bool(TRUE)), Block(<<Let("v", T("var"))>>), NoNode),
       Try(Block(<<Log(Id("v"))>>), Catching("e", <<LogMessage("e")>>), NoNode) >>)

\* function f() { created = 'in f'; return created }
\* log(f()); log(created);
ImplicitDefine ==
  Complete("implicit-define", "function",
    " f() { created = 'in f'; return created } log(f()); log(created);",
    << FuncDecl("f", <<>>,
         Block(<< ExprStmt(Assign("=", Id("created"), T("in f"))),
                  Return(Id("created")) >>)),
       Log(Call(Id("f"), <<>>)),
       Log(Id("created")) >>)

\* const t = 1, f = 0, n = null;
\* t ? log('c1 yes') : log('c1 no');  f ? await page.click('#never') : log('c2 no');
\* if (t) { log('if yes') } else { log('if no') }
\* if (f) { log('if2 yes') }
\* if (f) log('if3 yes'); else log('if3 no');
\* t && log('and right');  f && log('never and');
\* t || log('never or');   f || log('or right');
\* n ?? log('nullish right');  f ?? await page.click('#never');
ShortCircuit ==
  Complete("short-circuit", "const",
    " t = 1, f = 0, n = null; t ? log('c1 yes') : log('c1 no'); ...",
    << VarDecl(<< Declarator(Id("t"), N(1)), Declarator(Id("f"), N(0)),
                  Declarator(Id("n"), Lit(Null)) >>),
       ExprStmt(Conditional(Id("t"), LogCall(T("c1 yes")), LogCall(T("c1 no")))),
       ExprStmt(Conditional(Id("f"), Await(HostCall("click", T("#never"))),
                            LogCall(T("c2 no")))),
       If(Id("t"), Block(<<Log(T("if yes"))>>), Block(<<Log(T("if no"))>>)),
       If(Id("f"), Block(<<Log(T("if2 yes"))>>), NoNode),
       If(Id("f"), Log(T("if3 yes")), Log(T("if3 no"))),
       ExprStmt(Logical("&&", Id("t"), LogCall(T("and right")))),
       ExprStmt(Logical("&&", Id("f"), LogCall(T("never and")))),
       ExprStmt(Logical("||", Id("t"), LogCall(T("never or")))),
       ExprStmt(Logical("||", Id("f"), LogCall(T("or right")))),
       ExprStmt(Logical("??", Id("n"), LogCall(T("nullish right")))),
       ExprStmt(Logical("??", Id("f"), Await(HostCall("click", T("#never"))))) >>)

\* const title = await page.title(); log(title);
\* try { log(await page.goto('u')) } catch (e) { log(e.message) }
\* log('end')
AwaitOutcome ==
  Complete("await-outcome", "const",
    " title = await page.title(); log(title); try { log(await page.goto('u')) } ...",
    << Let("title", Await(Call(Member(Id("page"), "title"), <<>>))),
       Log(Id("title")),
       Try(Block(<<Log(Await(HostCall("goto", T("u"))))>>),
           Catching("e", <<LogMessage("e")>>), NoNode),
       Log(T("end")) >>)

Scripts ==
  << GithubSearch, TwoClicks, TwoClicksProgram, Ordering, Closures, Mutation, Inherited,
     TryThrow, TryQuiet, TryHost, Destructuring, DestructuringDefault,
     DestructuringComputed, DestructuringRest, Loops, Members, HostArguments, Unparsable,
     Arithmetic(NoInput), Unsupported, Expressions, Parameters, IsolationA, IsolationB,
     KeywordPrefix, SkippedLines, Returns, DirectProgram, TryPaths, CatchKinds,
     Scoping, ImplicitDefine, ShortCircuit, AwaitOutcome, ContextFirst, Receiver >>

(***************************************************************************)
(* The state machine.                                                      *)
(***************************************************************************)
\* The index of the script of that name.
ScriptNamed(name) == CHOOSE i \in 1..Len(Scripts) : Scripts[i].name = name

\* A ScriptContext: the page, the log callback and the optional parameters.
ScriptContext(log, parameters) == [page |-> "page", log |-> log, parameters |-> parameters]

\* The context the caller hands over with the script: parameters only where
\* the script asks for them.
Contexts(name) ==
  IF name = "parameters"
    THEN {ScriptContext(1, [query |-> Str("playwright")])}
    ELSE {ScriptContext(1, Undefined)}

\* An invocation executeScript(scriptCode, context) that has not run a step yet.
Invocation(code, input, ctx) ==
  [ script |-> code, inp |-> input, pc |-> "start", lineNo |-> 0, ctl |-> Idle,
    kont |-> <<>>, trace |-> <<>>, result |-> Undefined, context |-> ctx,
    interpreter |-> [globalEnv |-> 0] ]

\* The invocations made while this one is in flight: a second script, with a
\* context of its own, next to "isolation-a".
Others(name) ==
  IF name = "isolation-a"
    THEN {<<Invocation(ScriptNamed("isolation-b"), NoInput, ScriptContext(2, Undefined))>>}
    ELSE {<<>>}

(***************************************************************************)
(* The background page (src/background.ts): the two module variables       *)
(* isExecuting and currentExecutionLogs, the message listener and its       *)
(* executeScript, one step per await.                                       *)
(***************************************************************************)
\* EXECUTE_SCRIPT requests the popup sends while the background page lives.
MaxExecutions == 2

\* const maxRetries = 2
maxRetries == 2

\* The scripts getAvailableScripts resolves with (scripts/github.ts,
\* scripts/test.ts): `run` is the messages the script logs, an awaited page
\* call between each two of them.
AvailableScripts ==
  { [id |-> "github-search", name |-> "GitHub Search", useCurrentTab |-> TRUE,
     run |-> << "Navigating to GitHub repository...", "Waiting for 2 seconds...",
                "Pressing / key to open search...", "Waiting another 2 seconds...",
                "Typing search query: \"x\"...", "Search completed" >>],
    [id |-> "test", name |-> "Test Script", useCurrentTab |-> FALSE,
     run |-> << "Starting test script...", "Navigated to example.com",
                "Page title: Example Domain" >>] }

\* The script ids a request may carry: the two there are and one there is not.
ScriptIds == {"github-search", "test", "missing"}

NoScript == [id |-> "", name |-> "", useCurrentTab |-> FALSE, run |-> <<>>]

\* allScripts.find(s => s.id === scriptId)
Find(scriptId) ==
  IF \E s \in AvailableScripts : s.id = scriptId
    THEN CHOOSE s \in AvailableScripts : s.id = scriptId
    ELSE NoScript

NoResult == [success |-> FALSE, error |-> "", logs |-> <<>>]

\* An executeScript of the background that was not called yet.
NotCalled ==
  [ pc |-> "idle", scriptId |-> "", parameters |-> FALSE, script |-> NoScript,
    logs |-> <<>>, crxApp |-> FALSE, attempt |-> 0, at |-> 0,
    returning |-> NoResult, returned |-> NoResult ]

\* let currentExecutionLogs = []; let isExecuting = false (lines 24-25).
BackgroundLoaded ==
  /\ isExecuting = FALSE
  /\ currentExecutionLogs = <<>>
  /\ executions = [i \in 1..MaxExecutions |-> NotCalled]
  /\ crx = "stopped"
  /\ sent = [isExecuting |-> FALSE, logs |-> <<>>]

\* logs.push(msg)
WithLog(e, msg) == [e EXCEPT !.logs = Append(@, msg)]

\* The popup's answer: { success, error, logs }.
Failure(error, logs) == [success |-> FALSE, error |-> error, logs |-> logs]
Success(logs) == [success |-> TRUE, error |-> "", logs |-> logs]

\* What one step of an executeScript leaves: its locals e, and the two module
\* variables.
After(e, logs, executing) == [e |-> e, logs |-> logs, isExecuting |-> executing]

\* logs.push(msg); updateLogs(logs): currentExecutionLogs = [...logs].
updateLogs(e, msg) == After(WithLog(e, msg), Append(e.logs, msg), isExecuting)

\* The outer catch (lines 399-420): `Fatal error`, the application closed if
\* there is one, isExecuting = false, the failure returned.
FatalError(e, message) ==
  LET logged == WithLog(e, "Fatal error: " \o message)
  IN IF e.crxApp
       THEN After([logged EXCEPT !.pc = "fatalClose",
                                 !.returning = Failure(message, logged.logs)],
                  logged.logs, isExecuting)
       ELSE After([logged EXCEPT !.pc = "returned",
                                 !.returned = Failure(message, logged.logs)],
                  logged.logs, FALSE)

\* `return` inside the inner try or catch: the finally block (lines 385-398)
\* runs first, closing the application there is.
InnerReturn(e, value) == [e EXCEPT !.pc = "close", !.returning = value]

\* The inner catch (lines 362-384).
ScriptFailed(e, message) ==
  LET logged == WithLog(e, "Error: " \o message)
  IN After(IF e.script.useCurrentTab
             THEN [logged EXCEPT !.pc = "detachAfterError", !.returning = Failure(message, <<>>)]
             ELSE InnerReturn(logged, Failure(message, logged.logs)),
           logged.logs, isExecuting)

\* After `await script.run(ctx)` (lines 352-360).
ScriptCompleted(e) ==
  LET logged == WithLog(e, "Script " \o e.script.name \o " completed successfully")
  IN After(IF e.script.useCurrentTab
             THEN [logged EXCEPT !.pc = "detach"]
             ELSE InnerReturn(logged, Success(logged.logs)),
           logged.logs, isExecuting)

\* script.run(ctx) goes on until its next await, or to its end: the page call
\* number e.at has resolved (none for e.at = 0).
RunGoesOn(e) ==
  LET logged == WithLog(e, e.script.run[e.at + 1])
  IN IF e.at + 1 < Len(e.script.run)
       THEN After([logged EXCEPT !.pc = "script.run", !.at = @ + 1], logged.logs,
                  isExecuting)
       ELSE ScriptCompleted([logged EXCEPT !.at = @ + 1])

\* One step of the i-th executeScript.
Becomes(i, after, app) ==
  /\ executions' = [executions EXCEPT ![i] = after.e]
  /\ currentExecutionLogs' = after.logs
  /\ isExecuting' = after.isExecuting
  /\ crx' = app
  /\ UNCHANGED <<sent, core>>

\* A step that calls neither updateLogs nor touches isExecuting.
Quietly(e) == After(e, currentExecutionLogs, isExecuting)

At(i, where) == executions[i].pc = where

\* onMessage EXECUTE_SCRIPT: executeScript(message.scriptId, message.parameters)
\* up to its first await (lines 129-131, 207-217).
onExecuteScript ==
  \E i \in 1..MaxExecutions, scriptId \in ScriptIds, parameters \in BOOLEAN :
    /\ At(i, "idle")
    /\ i > 1 => ~At(i - 1, "idle")
    /\ Becomes(i, After([NotCalled EXCEPT !.pc = "getAvailableScripts",
                                           !.scriptId = scriptId,
                                           !.parameters = parameters],
                        <<>>, TRUE), crx)

\* getAvailableScripts() resolved (lines 217-237).
scriptsAvailable ==
  \E i \in 1..MaxExecutions :
    /\ At(i, "getAvailableScripts")
    /\ LET e == executions[i]
           found == Find(e.scriptId)
           named == updateLogs([e EXCEPT !.script = found],
                               "Executing script: " \o found.name)
           told == IF e.parameters
                     THEN updateLogs(named.e, "Using parameters: {\"searchQuery\":\"x\"}")
                     ELSE named
       IN IF found = NoScript
            THEN Becomes(i, Quietly([e EXCEPT
                   !.pc = "returned",
                   !.returned = Failure("Script not found: " \o e.scriptId,
                     << "Error: Script with ID \"" \o e.scriptId \o "\" not found" >>)]),
                   crx)
            ELSE Becomes(i, After([told.e EXCEPT !.pc = "crx.start"], told.logs,
                                  isExecuting), crx)

\* `crxApp = await crx.start()` settled (lines 240-265).
crxStartSettled ==
  \E i \in 1..MaxExecutions :
    /\ At(i, "crx.start")
    /\ LET e == executions[i]
       IN \/ /\ crx = "stopped"
             /\ LET started == [e EXCEPT !.crxApp = TRUE,
                                         !.pc = IF e.script.useCurrentTab
                                                  THEN "tabs.query" ELSE "newPage"]
                IN Becomes(i, IF e.attempt > 0
                                THEN updateLogs(started, "Successfully started CRX instance")
                                ELSE Quietly(started),
                           "started")
          \/ /\ crx = "stopped"
             /\ Becomes(i, FatalError(e, "Failed to launch"), crx)
          \/ /\ crx = "started"
             /\ e.attempt = maxRetries
             /\ Becomes(i, FatalError(e, "Failed to start CRX after multiple attempts"), crx)
          \/ /\ crx = "started"
             /\ e.attempt < maxRetries
             /\ LET detected == updateLogs(e,
                      "Detected lingering CRX instance, waiting before retry...")
                    again == [detected.e EXCEPT !.attempt = @ + 1, !.pc = "retryDelay"]
                IN Becomes(i, updateLogs(again,
                     "Retry attempt " \o ToString(again.attempt) \o "/2..."), crx)

\* `await new Promise(resolve => setTimeout(resolve, 1000))` is over (line 246).
retryDelayOver ==
  \E i \in 1..MaxExecutions :
    /\ At(i, "retryDelay")
    /\ Becomes(i, Quietly([executions[i] EXCEPT !.pc = "crx.start"]), crx)

\* chrome.tabs.query settled (lines 275-280).
tabsQueried ==
  \E i \in 1..MaxExecutions :
    /\ At(i, "tabs.query")
    /\ \/ Becomes(i, Quietly([executions[i] EXCEPT !.pc = "attach"]), crx)
       \/ Becomes(i, FatalError(executions[i], "No active tab found"), crx)

\* crxApp.attach(tab.id) or crxApp.newPage() settled; script.run(ctx) is called
\* and runs to its first await (lines 282-351).
pageSettled ==
  \E i \in 1..MaxExecutions :
    LET e == executions[i]
    IN \/ /\ At(i, "attach")
          /\ Becomes(i, RunGoesOn(WithLog(e, "Attached to current tab")), crx)
       \/ /\ At(i, "newPage")
          /\ Becomes(i, RunGoesOn(WithLog(e, "Created new tab")), crx)
       \/ /\ e.pc \in {"attach", "newPage"}
          /\ Becomes(i, FatalError(e, "Target closed"), crx)

\* The page call script.run(ctx) awaits settled (line 351).
scriptAwaited ==
  \E i \in 1..MaxExecutions :
    /\ At(i, "script.run")
    /\ \/ Becomes(i, RunGoesOn(executions[i]), crx)
       \/ Becomes(i, ScriptFailed(executions[i], "Timeout 30000ms exceeded"), crx)

\* `await crxApp.detach(page)` settled, after the script (lines 355-359) or
\* after its failure (lines 367-375).
detachSettled ==
  \E i \in 1..MaxExecutions :
    LET e == executions[i]
    IN \/ /\ At(i, "detach")
          /\ LET detached == updateLogs(e, "Detached from tab")
             IN Becomes(i, After(InnerReturn(detached.e, Success(detached.e.logs)),
                                 detached.logs, isExecuting), crx)
       \/ /\ At(i, "detach")
          /\ Becomes(i, ScriptFailed(e, "Target closed"), crx)
       \/ /\ At(i, "detachAfterError")
          /\ LET detached == updateLogs(e, "Detached from tab")
             IN Becomes(i, After(InnerReturn(detached.e,
                                   Failure(e.returning.error, detached.e.logs)),
                                 detached.logs, isExecuting), crx)
       \/ /\ At(i, "detachAfterError")
          /\ Becomes(i, Quietly(InnerReturn(e, Failure(e.returning.error, e.logs))), crx)

\* The value the function returns, `logs` being the array it went on pushing to.
Returned(e) == [e.returning EXCEPT !.logs = e.logs]

\* `await crxApp.close()` settled, in the finally block (lines 386-397) or in
\* the outer catch (lines 404-415): after a close that failed there is no
\* delay, isExecuting = false and the function returns.
closeSettled ==
  \E i \in 1..MaxExecutions :
    LET e == executions[i]
    IN /\ e.pc \in {"close", "fatalClose"}
       /\ \/ Becomes(i, Quietly([e EXCEPT !.pc = "closeDelay"]), "stopped")
          \/ Becomes(i, After([e EXCEPT !.pc = "returned", !.returned = Returned(e)],
                              currentExecutionLogs, FALSE), crx)

\* `await new Promise(resolve => setTimeout(resolve, 100))` is over: isExecuting =
\* false and the function returns (lines 390, 397, 408, 414-419).
closeDelayOver ==
  \E i \in 1..MaxExecutions :
    /\ At(i, "closeDelay")
    /\ Becomes(i, After([executions[i] EXCEPT !.pc = "returned",
                                              !.returned = Returned(executions[i])],
                        currentExecutionLogs, FALSE), crx)

\* onMessage GET_EXECUTION_STATE (lines 173-179).
getExecutionState ==
  /\ sent' = [isExecuting |-> isExecuting, logs |-> currentExecutionLogs]
  /\ UNCHANGED <<isExecuting, currentExecutionLogs, executions, crx, core>>

\* The interpreter module is not in the picture of the background page.
CoreAside ==
  /\ script = 1
  /\ inp = NoInput
  /\ context = CHOOSE c \in Contexts(Scripts[1].name) : TRUE
  /\ parked = <<>>
  /\ pc = "start"
  /\ lineNo = 0
  /\ ctl = Idle
  /\ kont = <<>>
  /\ envs = <<>>
  /\ objs = <<>>
  /\ trace = <<>>
  /\ result = Undefined
  /\ interpreter = [globalEnv |-> 0]

InitBackground == CoreAside /\ BackgroundLoaded

NextBackground ==
  \/ onExecuteScript
  \/ scriptsAvailable
  \/ crxStartSettled
  \/ retryDelayOver
  \/ tabsQueried
  \/ pageSettled
  \/ scriptAwaited
  \/ detachSettled
  \/ closeSettled
  \/ closeDelayOver
  \/ getExecutionState

SpecBackground == InitBackground /\ [][NextBackground]_vars

\* The script is an AST handed to Interpreter.execute, not a text handed to
\* executeScript.
Direct(src) == src.lines = <<>> /\ Present(src.ast)

Init ==
  /\ script \in 1..Len(Scripts)
  /\ inp \in IF Scripts[script].name = "arithmetic" THEN Inputs ELSE {NoInput}
  /\ context \in Contexts(Scripts[script].name)
  /\ parked \in Others(Scripts[script].name)
  /\ pc = IF Direct(Scripts[script]) THEN "execute" ELSE "start"
  /\ lineNo = 0
  /\ ctl = Idle
  /\ kont = <<>>
  /\ envs = <<>>
  /\ objs = <<>>
  /\ trace = <<>>
  /\ result = Undefined
  /\ interpreter = [globalEnv |-> 0]
  /\ BackgroundLoaded

\* The source text of this execution.
scriptCode ==
  IF Scripts[script].name = "arithmetic" THEN Arithmetic(inp) ELSE Scripts[script]

Entering(type) == pc = "run" /\ ctl.m = "eval" /\ ctl.node.type = type
Returning(f) == pc = "run" /\ ctl.m = "ret" /\ kont # <<>> /\ Top.f = f
Throwing(f) == pc = "run" /\ ctl.m = "throw" /\ kont # <<>> /\ Top.f = f

\* One step of the evaluator: it never touches executeScript's own locals.
Step(c, k, es, os, tr) ==
  /\ ctl' = c
  /\ kont' = k
  /\ envs' = es
  /\ objs' = os
  /\ trace' = tr
  /\ UNCHANGED <<script, inp, pc, lineNo, result, context, interpreter, parked, background>>

Go(c, k) == Step(c, k, envs, objs, trace)

\* context.log(msg), called by `by`.
Logged(by, msg) == Event("log", <<by>>, <<>>, msg)

\* A milestone of the loop over the lines: line n was skipped, parsed or found
\* unparsable, its evaluation returned or threw.
Line(what, n) == Event("line", <<what>>, <<>>, Num(n))

\* `for (const line of lines)`: the line after line n.
NextLine(n, lines) == n + 1

\* The rest of the lines given up: no line comes after line n.
AbandonRest(n, lines) == Len(lines) + 1

\* The inner catch logs and falls through to the next turn of the loop.
AfterFailedLine(n, lines) == NextLine(n, lines)

\* The outer catch swallowing the error.
Swallowed(completion) == "done"

\* if (!trimmedLine || trimmedLine.startsWith('//') || trimmedLine.match(...)) continue
Skips(trimmedLine) ==
  \/ trimmedLine = <<>>
  \/ trimmedLine[1] = "//"
  \/ MatchesCtxDestructuring(trimmedLine)

\* How executeScript settles once interpreter.execute has: the outer catch
\* rethrows.
Settlement(completion) == IF completion.m = "throw" THEN "rejected" ELSE "done"

(***************************************************************************)
(* executeScript (lines 755-811).                                          *)
(***************************************************************************)
\* Fragment branch: new Interpreter(context), then the loop over the lines.
executeFragment ==
  /\ pc = "start"
  /\ isFunctionBody(scriptCode)
  /\ envs' = Interpreter(envs).envs
  /\ interpreter' = [globalEnv |-> Interpreter(envs).globalEnv]
  /\ pc' = "line"
  /\ lineNo' = 1
  /\ UNCHANGED <<script, inp, ctl, kont, objs, trace, result, context, parked, background>>

\* Complete-program branch: parseScript, new Interpreter, interpreter.execute;
\* a parse failure goes to the outer catch, which logs it and rethrows.
executeProgram ==
  /\ pc = "start"
  /\ ~isFunctionBody(scriptCode)
  /\ LET ast == parseScript(Code(<<>>, scriptCode.ast))
     IN IF ast.ok
          THEN /\ envs' = Interpreter(envs).envs
               /\ interpreter' = [globalEnv |-> Interpreter(envs).globalEnv]
               /\ ctl' = Eval(ast.val, Interpreter(envs).globalEnv)
               /\ pc' = "run"
               /\ UNCHANGED <<trace, result>>
          ELSE /\ trace' = Append(trace, Logged("executeScript",
                      Str("Error executing script: " \o MessageOf(ast.val))))
               /\ pc' = "rejected"
               /\ result' = ast.val
               /\ UNCHANGED <<envs, ctl, interpreter>>
  /\ UNCHANGED <<script, inp, lineNo, kont, objs, context, parked, background>>

\* One turn of `for (const line of lines)` up to the await of interpreter.execute.
executeLine ==
  /\ pc = "line"
  /\ lineNo <= Len(scriptCode.lines)
  /\ LET line == scriptCode.lines[lineNo]
         trimmedLine == Trim(line.text)
         ast == IF StartsWithAwait(trimmedLine)
                  THEN parseScript(WrappedCode(line))
                  ELSE parseScript(Code(trimmedLine, line.ast))
     IN IF Skips(trimmedLine)
          THEN /\ lineNo' = NextLine(lineNo, scriptCode.lines)
               /\ trace' = Append(trace, Line("skipped", lineNo))
               /\ UNCHANGED <<pc, ctl>>
        ELSE IF ast.ok
          THEN /\ ctl' = Eval(ast.val, globalEnv)
               /\ pc' = "run"
               /\ trace' = Append(trace, Line("parsed", lineNo))
               /\ UNCHANGED lineNo
        ELSE /\ trace' = trace \o
                  << Line("unparsable", lineNo),
                     Logged("executeLine",
                       Str("Error in line \"" \o Join(trimmedLine) \o "\": "
                           \o MessageOf(ast.val))) >>
             /\ lineNo' = AfterFailedLine(lineNo, scriptCode.lines)
             /\ UNCHANGED <<pc, ctl>>
  /\ UNCHANGED <<script, inp, kont, envs, objs, result, context, interpreter, parked, background>>

\* interpreter.execute(ast) of a line returned or threw (the inner catch).
lineSettled ==
  /\ pc = "run"
  /\ isFunctionBody(scriptCode)
  /\ ~Direct(scriptCode)
  /\ kont = <<>>
  /\ \/ /\ ctl.m = "ret"
        /\ result' = ctl.val
        /\ trace' = Append(trace, Line("returned", lineNo))
        /\ lineNo' = NextLine(lineNo, scriptCode.lines)
     \/ /\ ctl.m = "throw"
        /\ trace' = trace \o
             << Line("threw", lineNo),
                Logged("executeLine",
                  Str("Error in line \"" \o Join(Trim(scriptCode.lines[lineNo].text))
                      \o "\": " \o MessageOf(ctl.val))) >>
        /\ lineNo' = AfterFailedLine(lineNo, scriptCode.lines)
        /\ UNCHANGED result
  /\ ctl' = Idle
  /\ pc' = "line"
  /\ UNCHANGED <<script, inp, kont, envs, objs, context, interpreter, parked, background>>

\* The loop has run out of lines: executeScript resolves.
fragmentDone ==
  /\ pc = "line"
  /\ lineNo > Len(scriptCode.lines)
  /\ pc' = "done"
  /\ UNCHANGED << script, inp, lineNo, ctl, kont, envs, objs, trace, result, context,
                  interpreter, parked, background >>

\* interpreter.execute(ast) of a complete program returned or threw (the outer
\* catch: context.log, then `throw error`).
programSettled ==
  /\ pc = "run"
  /\ ~isFunctionBody(scriptCode)
  /\ kont = <<>>
  /\ \/ /\ ctl.m = "ret"
        /\ UNCHANGED trace
     \/ /\ ctl.m = "throw"
        /\ trace' = Append(trace, Logged("executeScript",
               Str("Error executing script: " \o MessageOf(ctl.val))))
  /\ pc' = Settlement(ctl)
  /\ result' = ctl.val
  /\ ctl' = Idle
  /\ UNCHANGED <<script, inp, lineNo, kont, envs, objs, context, interpreter, parked, background>>

\* new Interpreter(context).execute(ast), called by a user of the class with
\* an AST of their own: the evaluation starts in the global environment.
execute ==
  /\ pc = "execute"
  /\ envs' = Interpreter(envs).envs
  /\ interpreter' = [globalEnv |-> Interpreter(envs).globalEnv]
  /\ ctl' = Eval(scriptCode.ast, Interpreter(envs).globalEnv)
  /\ pc' = "run"
  /\ UNCHANGED <<script, inp, lineNo, kont, objs, trace, result, context, parked, background>>

\* The promise of that call settles with what evaluateNode returned or threw.
executeSettled ==
  /\ pc = "run"
  /\ Direct(scriptCode)
  /\ kont = <<>>
  /\ ctl.m \in {"ret", "throw"}
  /\ pc' = Settlement(ctl)
  /\ result' = ctl.val
  /\ ctl' = Idle
  /\ UNCHANGED <<script, inp, lineNo, kont, envs, objs, trace, context, interpreter, parked, background>>

\* This invocation waits (for a host call to settle, to be started, or no
\* more), and the other one has something to do.
Suspended ==
  \/ pc \in {"start", "done", "rejected"}
  \/ pc = "run" /\ ctl.m = "host"

\* Two invocations of executeScript in flight: while this one waits at a
\* suspension point the event loop goes on with the other one.  Environments
\* and guest objects live in the one heap both share.
eventLoopTurn ==
  /\ parked # <<>>
  /\ Suspended
  /\ parked[1].pc \notin {"done", "rejected"}
  /\ script' = parked[1].script
  /\ inp' = parked[1].inp
  /\ pc' = parked[1].pc
  /\ lineNo' = parked[1].lineNo
  /\ ctl' = parked[1].ctl
  /\ kont' = parked[1].kont
  /\ trace' = parked[1].trace
  /\ result' = parked[1].result
  /\ context' = parked[1].context
  /\ interpreter' = parked[1].interpreter
  /\ parked' = << [ script |-> script, inp |-> inp, pc |-> pc, lineNo |-> lineNo,
                    ctl |-> ctl, kont |-> kont, trace |-> trace, result |-> result,
                    context |-> context, interpreter |-> interpreter ] >>
  /\ UNCHANGED <<envs, objs, background>>

(***************************************************************************)
(* Interpreter.evaluateNode and the methods it dispatches to.              *)
(***************************************************************************)
NodeTypes ==
  { "Program", "ExpressionStatement", "CallExpression", "MemberExpression",
    "Identifier", "Literal", "AwaitExpression", "VariableDeclaration",
    "BlockStatement", "IfStatement", "BinaryExpression", "LogicalExpression",
    "UnaryExpression", "ForStatement", "WhileStatement", "ObjectExpression",
    "ArrayExpression", "FunctionDeclaration", "ArrowFunctionExpression",
    "ReturnStatement", "AssignmentExpression", "UpdateExpression",
    "TemplateLiteral", "ConditionalExpression", "TryStatement" }

\* A node of an unknown kind taken for a statement that does nothing.
SilentNoOp ==
  /\ pc = "run" /\ ctl.m = "eval"
  /\ ctl.node.type \notin NodeTypes
  /\ Go(Ret(Undefined), kont)

\* default: throw new Error(`Unsupported node type: ${node.type}`)
evaluateNodeDefault ==
  /\ pc = "run" /\ ctl.m = "eval"
  /\ ctl.node.type \notin NodeTypes
  /\ Go(Throw(Err(<<"Unsupported node type: ", ctl.node.type>>)), kont)

\* A rejected await inside a method that has no try around it rejects the
\* method's own promise: the activation is gone and its caller sees the error.
Handlers == {"evaluateTryStatement", "createFunction"}

propagate ==
  /\ pc = "run" /\ ctl.m = "throw"
  /\ kont # <<>>
  /\ Top.f \notin Handlers
  /\ Go(ctl, Pop)

evaluateProgram ==
  \/ /\ Entering("Program")
     /\ IF ctl.node.body = <<>>
          THEN Go(Ret(Undefined), kont)
          ELSE Go(Eval(ctl.node.body[1], ctl.env),
                  Push(Frame("evaluateProgram", ctl.node, ctl.env, 1, <<>>)))
  \/ /\ Returning("evaluateProgram")
     /\ IF Top.i < Len(Top.node.body)
          THEN Go(Eval(Top.node.body[Top.i + 1], Top.env),
                  Replace([Top EXCEPT !.i = @ + 1]))
          ELSE Go(Ret(ctl.val), Pop)

\* case 'ExpressionStatement': return await this.evaluateNode(node.expression, env)
evaluateExpressionStatement ==
  /\ Entering("ExpressionStatement")
  /\ Go(Eval(ctl.node.expression, ctl.env), kont)

evaluateIdentifier ==
  /\ Entering("Identifier")
  /\ LET found == lookup(envs, ctl.env, ctl.node.name)
     IN Go(IF found.ok THEN Ret(found.val) ELSE Throw(found.val), kont)

evaluateLiteral ==
  /\ Entering("Literal")
  /\ Go(Ret(ctl.node.value), kont)

\* case 'AwaitExpression': const value = await evaluateNode(argument); return await value
evaluateAwaitExpression ==
  \/ /\ Entering("AwaitExpression")
     /\ Go(Eval(ctl.node.argument, ctl.env),
           Push(Frame("evaluateAwaitExpression", ctl.node, ctl.env, 1, <<>>)))
  \/ /\ Returning("evaluateAwaitExpression")
     /\ Go(Ret(ctl.val), Pop)

evaluateMemberExpression ==
  \/ /\ Entering("MemberExpression")
     /\ Go(Eval(ctl.node.object, ctl.env),
           Push(Frame("evaluateMemberExpression", ctl.node, ctl.env, 1, <<>>)))
  \/ /\ Returning("evaluateMemberExpression")
     /\ Top.i = 1
     /\ IF Top.node.computed
          THEN Go(Eval(Top.node.property, Top.env),
                  Replace([Top EXCEPT !.i = 2, !.acc = <<ctl.val>>]))
          ELSE LET got == GetMember(objs, ctl.val, Top.node.property.name)
               IN Go(IF got.ok THEN Ret(got.val) ELSE Throw(got.val), Pop)
  \/ /\ Returning("evaluateMemberExpression")
     /\ Top.i = 2
     /\ LET got == GetMember(objs, Top.acc[1], ToPropertyKey(ctl.val))
        IN Go(IF got.ok THEN Ret(got.val) ELSE Throw(got.val), Pop)

\* typeof func === 'function'
IsFunction(x) == x.k \in {"closure", "hostMethod", "contextLog", "native"}

\* The call `func(...args)` the evaluator is about to make.
Invoke(func) == [m |-> "invoke", node |-> NoNode, env |-> 0, val |-> func]

\* The arguments taken from the right: the argument before the last i of them.
ArgumentFromTheRight(node, i) == node.arguments[Len(node.arguments) - i]

\* `for (const arg of node.arguments)`: the argument after i of them.
NextArgument(node, i) == node.arguments[i + 1]

\* A call that returns what the function returned without awaiting it: the
\* host method is started and the evaluation goes on at once.
CallWithoutAwait ==
  \/ /\ Entering("CallExpression")
     /\ Go(Eval(ctl.node.callee, ctl.env),
           Push(Frame("evaluateCallExpression", ctl.node, ctl.env, 0, <<>>)))
  \/ /\ Returning("evaluateCallExpression")
     /\ Top.i < Len(Top.node.arguments)
     /\ Go(Eval(NextArgument(Top.node, Top.i), Top.env),
           Replace([Top EXCEPT !.i = @ + 1, !.acc = Append(@, ctl.val)]))
  \/ /\ Returning("evaluateCallExpression")
     /\ Top.i = Len(Top.node.arguments)
     /\ LET func == Append(Top.acc, ctl.val)[1]
            args == Tail(Append(Top.acc, ctl.val))
        IN IF ~IsFunction(func)
             THEN Go(Throw(Err(<<"Attempted to call a non-function">>)), Pop)
             ELSE IF func.k = "hostMethod"
                    THEN Step(Ret(Undefined), Pop, envs, objs,
                              trace \o << Event("forward", func.v, args, Undefined),
                                          Event("host", func.v, args, Undefined) >>)
                    ELSE Go(Invoke(func), Replace([Top EXCEPT !.i = @ + 1, !.acc = args]))
  \/ /\ Returning("evaluateCallExpression")
     /\ Top.i = Len(Top.node.arguments) + 1
     /\ Go(Ret(ctl.val), Pop)

evaluateCallExpression ==
  \/ /\ Entering("CallExpression")
     /\ Go(Eval(ctl.node.callee, ctl.env),
           Push(Frame("evaluateCallExpression", ctl.node, ctl.env, 0, <<>>)))
  \/ /\ Returning("evaluateCallExpression")
     /\ Top.i < Len(Top.node.arguments)
     /\ Go(Eval(NextArgument(Top.node, Top.i), Top.env),
           Replace([Top EXCEPT !.i = @ + 1, !.acc = Append(@, ctl.val)]))
  \/ /\ Returning("evaluateCallExpression")
     /\ Top.i = Len(Top.node.arguments)
     /\ LET func == Append(Top.acc, ctl.val)[1]
            args == Tail(Append(Top.acc, ctl.val))
        IN IF ~IsFunction(func)
             THEN Go(Throw(Err(<<"Attempted to call a non-function">>)), Pop)
             ELSE Go(Invoke(func), Replace([Top EXCEPT !.i = @ + 1, !.acc = args]))
  \/ /\ Returning("evaluateCallExpression")
     /\ Top.i = Len(Top.node.arguments) + 1
     /\ Go(Ret(ctl.val), Pop)

\* The arguments of the call in progress.
CallArgs == Top.acc

Arg(args, i) == IF i <= Len(args) THEN args[i] ELSE Undefined

\* context.log, bound to the guest name `log`: the callback of the context the
\* function value came from gets the message.
contextLog ==
  /\ pc = "run" /\ ctl.m = "invoke" /\ ctl.val.k = "contextLog"
  /\ LET called == Event("log", <<"guest">>, CallArgs, Arg(CallArgs, 1))
     IN IF ctl.val.v = context.log
          THEN Step(Ret(Undefined), kont, envs, objs, Append(trace, called))
          ELSE /\ parked # <<>>
               /\ parked' = <<[parked[1] EXCEPT !.trace = Append(@, called)]>>
               /\ ctl' = Ret(Undefined)
               /\ UNCHANGED << script, inp, pc, lineNo, kont, envs, objs, trace, result,
                               context, interpreter, background >>

\* A call that hands an object over as the receiver.
SomeObjectAsThis(func) == Obj(1)

\* `func(...args)` (line 249): the function value is applied to the arguments
\* only, its `this` is undefined whatever object it was read from.
ThisValue(func) == Undefined

\* The built-in methods a guest object or an Error inherits, which work on
\* their receiver.
ReceiverMethods == {"toString", "valueOf", "hasOwnProperty", "Error.prototype.toString"}

\* What the built-in method `name` does with the receiver self: [ok, val].
NativeMethod(os, name, self, args) ==
  CASE name = "toString" ->
         [ok |-> TRUE,
          val |-> Str(CASE self.k = "undefined" -> "[object Undefined]"
                        [] self.k = "null" -> "[object Null]"
                        [] self.k = "array" -> "[object Array]"
                        [] self.k = "error" -> "[object Error]"
                        [] OTHER -> "[object Object]")]
    [] name = "valueOf" ->
         IF self.k \in {"undefined", "null"}
           THEN [ok |-> FALSE,
                 val |-> TypeError(<<"Cannot convert undefined or null to object">>)]
           ELSE [ok |-> TRUE, val |-> self]
    [] name = "hasOwnProperty" ->
         IF self.k \in {"undefined", "null"}
           THEN [ok |-> FALSE,
                 val |-> TypeError(<<"Cannot convert undefined or null to object">>)]
           ELSE [ok |-> TRUE,
                 val |-> Bool(self.k = "object"
                              /\ ToPropertyKey(Arg(args, 1)) \in DOMAIN os[self.v].props)]
    [] name = "Error.prototype.toString" ->
         IF self.k = "error"
           THEN [ok |-> TRUE,
                 val |-> Str(self.v.name \o ": " \o Join(self.v.message))]
           ELSE [ok |-> FALSE,
                 val |-> TypeError(<<"Method Error.prototype.toString called on ",
                                     "incompatible receiver ", self.k>>)]

\* `await func(...args)` for a built-in method read from an object.
callNative ==
  /\ pc = "run" /\ ctl.m = "invoke" /\ ctl.val.k = "native"
  /\ ctl.val.v \in ReceiverMethods
  /\ LET called == NativeMethod(objs, ctl.val.v, ThisValue(ctl.val), CallArgs)
     IN Go(IF called.ok THEN Ret(called.val) ELSE Throw(called.val), kont)

HostResult(fullPath) == Str("<" \o Dotted(fullPath) \o ">")
HostError(fullPath) == Err(<<"Timeout exceeded: ", Dotted(fullPath)>>)

\* A forwarding function that starts the real method and does not wait for it.
ForwardWithoutAwait ==
  /\ pc = "run" /\ ctl.m = "invoke" /\ ctl.val.k = "hostMethod"
  /\ Step(Ret(Undefined), kont, envs, objs,
          trace \o << Event("forward", ctl.val.v, CallArgs, Undefined),
                      Event("host", ctl.val.v, CallArgs, Undefined) >>)

\* The forwarding function a method read through the proxy returns (lines 41-44):
\* console.log of the call, then the real method, awaited.
forward ==
  \/ /\ pc = "run" /\ ctl.m = "invoke" /\ ctl.val.k = "hostMethod"
     /\ LET texts == StringifyAll(objs, CallArgs)
            called == Event("forward", ctl.val.v, CallArgs, Undefined)
        IN IF texts.ok
             THEN Step(Pending(ctl.val), kont, envs, objs,
                       trace \o << called,
                                   Event("console", ctl.val.v,
                                         [i \in 1..Len(CallArgs) |-> Str(texts.texts[i])],
                                         Str(CallingLine(ctl.val.v, texts.texts))),
                                   Event("host", ctl.val.v, CallArgs, Undefined) >>)
             ELSE Step(Throw(TypeError(<<texts.why>>)), kont, envs, objs,
                       trace \o << called,
                                   Event("forwarded", ctl.val.v, <<Str("rejected")>>,
                                         TypeError(<<texts.why>>)) >>)
  \/ /\ pc = "run" /\ ctl.m = "host"
     /\ \E settled \in {"resolved", "rejected"} :
          LET value == IF settled = "resolved"
                         THEN HostResult(ctl.val.v) ELSE HostError(ctl.val.v)
          IN Step(IF settled = "resolved" THEN Ret(value) ELSE Throw(value),
                  kont, envs, objs,
                  trace \o << Event("settled", ctl.val.v, <<Str(settled)>>, value),
                              Event("forwarded", ctl.val.v, <<Str(settled)>>, value) >>)

(***************************************************************************)
(* Functions and closures.                                                 *)
(***************************************************************************)
\* What createFunction(params, body, env) returns: the async arrow closes over
\* params, body and the defining env.
Closure(params, body, env) ==
  [k |-> "closure", v |-> [params |-> params, body |-> body, env |-> env]]

evaluateFunctionDeclaration ==
  /\ Entering("FunctionDeclaration")
  /\ Step(Ret(Undefined), kont,
          define(envs, ctl.env, ctl.node.id.name,
                 Closure(ctl.node.params, ctl.node.body, ctl.env)),
          objs, trace)

evaluateArrowFunctionExpression ==
  /\ Entering("ArrowFunctionExpression")
  /\ Go(Ret(Closure(ctl.node.params, ctl.node.body, ctl.env)), kont)

RECURSIVE BindParams(_, _, _, _, _)
\* for (i...) { if (params[i].type !== 'Identifier') throw ...; define(funcEnv, ...) }
\* from parameter i on: [ok, envs].
BindParams(es, funcEnv, params, args, i) ==
  IF i > Len(params) THEN [ok |-> TRUE, envs |-> es]
  ELSE IF params[i].type # "Identifier" THEN [ok |-> FALSE, envs |-> es]
  ELSE BindParams(define(es, funcEnv, params[i].name, Arg(args, i)),
                  funcEnv, params, args, i + 1)

\* A frame under the frame of the call site.
CallSiteEnv(es, closure, callerEnv) == Alloc(es, <<>>, callerEnv)

\* The frame a call of `closure` evaluates its body in.
FunctionEnv(es, closure, callerEnv) == Alloc(es, <<>>, closure.v.env)

\* The async arrow createFunction returns (lines 433-461).
createFunction ==
  \/ /\ pc = "run" /\ ctl.m = "invoke" /\ ctl.val.k = "closure"
     /\ LET funcEnv == NewEnv(envs)
            bound == BindParams(FunctionEnv(envs, ctl.val, Top.env), funcEnv,
                                ctl.val.v.params, CallArgs, 1)
        IN IF bound.ok
             THEN Step(Eval(ctl.val.v.body, funcEnv),
                       Push(Frame("createFunction", ctl.val.v.body, funcEnv, 1, <<ctl.val>>)),
                       bound.envs, objs, trace)
             ELSE Step(Throw(Err(<<"Only simple parameter names are supported">>)),
                       kont, bound.envs, objs, trace)
  \/ /\ Returning("createFunction")
     /\ Go(Ret(IF IsReturnValue(ctl.val) THEN ctl.val.v ELSE ctl.val), Pop)
  \/ /\ Throwing("createFunction")
     /\ Go(IF IsReturnValue(ctl.val) THEN Ret(ctl.val.v) ELSE ctl, Pop)

evaluateReturnStatement ==
  \/ /\ Entering("ReturnStatement")
     /\ IF Present(ctl.node.argument)
          THEN Go(Eval(ctl.node.argument, ctl.env),
                  Push(Frame("evaluateReturnStatement", ctl.node, ctl.env, 1, <<>>)))
          ELSE Go(Ret(ReturnValue(Undefined)), kont)
  \/ /\ Returning("evaluateReturnStatement")
     /\ Go(Ret(ReturnValue(ctl.val)), Pop)

\* A block evaluated in the frame it was met in.
BlockWithoutFrame ==
  \/ /\ Entering("BlockStatement")
     /\ IF ctl.node.body = <<>>
          THEN Go(Ret(Undefined), kont)
          ELSE Go(Eval(ctl.node.body[1], ctl.env),
                  Push(Frame("evaluateBlockStatement", ctl.node, ctl.env, 1, <<>>)))
  \/ /\ Returning("evaluateBlockStatement")
     /\ IF IsReturnValue(ctl.val) \/ Top.i = Len(Top.node.body)
          THEN Go(Ret(ctl.val), Pop)
          ELSE Go(Eval(Top.node.body[Top.i + 1], Top.env),
                  Replace([Top EXCEPT !.i = @ + 1]))

evaluateBlockStatement ==
  \/ /\ Entering("BlockStatement")
     /\ LET blockEnv == NewEnv(envs)
        IN IF ctl.node.body = <<>>
             THEN Step(Ret(Undefined), kont, Alloc(envs, <<>>, ctl.env), objs, trace)
             ELSE Step(Eval(ctl.node.body[1], blockEnv),
                       Push(Frame("evaluateBlockStatement", ctl.node, blockEnv, 1, <<>>)),
                       Alloc(envs, <<>>, ctl.env), objs, trace)
  \/ /\ Returning("evaluateBlockStatement")
     /\ IF IsReturnValue(ctl.val) \/ Top.i = Len(Top.node.body)
          THEN Go(Ret(ctl.val), Pop)
          ELSE Go(Eval(Top.node.body[Top.i + 1], Top.env),
                  Replace([Top EXCEPT !.i = @ + 1]))

evaluateIfStatement ==
  \/ /\ Entering("IfStatement")
     /\ Go(Eval(ctl.node.test, ctl.env),
           Push(Frame("evaluateIfStatement", ctl.node, ctl.env, 1, <<>>)))
  \/ /\ Returning("evaluateIfStatement")
     /\ IF Truthy(ctl.val)
          THEN Go(Eval(Top.node.consequent, Top.env), Pop)
        ELSE IF Present(Top.node.alternate)
          THEN Go(Eval(Top.node.alternate, Top.env), Pop)
        ELSE Go(Ret(Undefined), Pop)


(***************************************************************************)
(* Declarations and destructuring.                                         *)
(***************************************************************************)
RECURSIVE BindObjectPattern(_, _, _, _, _, _)
\* The loop over declarator.id.properties from property i on: [ok, envs, val].
BindObjectPattern(es, os, env, properties, rightValue, i) ==
  IF i > Len(properties) THEN [ok |-> TRUE, envs |-> es, val |-> Undefined]
  ELSE LET property == properties[i]
       IN IF property.type = "RestElement"
            \* a RestElement has no key: property.key.type reads from undefined
            THEN [ok |-> FALSE, envs |-> es,
                  val |-> TypeError(<<"Cannot read properties of undefined (reading 'type')">>)]
          ELSE IF property.key.type # "Identifier"
            THEN [ok |-> FALSE, envs |-> es,
                  val |-> Err(<<"Unsupported property key type: ", property.key.type>>)]
          ELSE IF property.value.type # "Identifier"
            THEN [ok |-> FALSE, envs |-> es,
                  val |-> Err(<<"Unsupported destructuring pattern: ", property.value.type>>)]
          ELSE LET got == GetMember(os, rightValue, property.key.name)
               IN IF ~got.ok THEN [ok |-> FALSE, envs |-> es, val |-> got.val]
                  ELSE BindObjectPattern(define(es, env, property.value.name, got.val),
                                         os, env, properties, rightValue, i + 1)

RECURSIVE BindArrayPattern(_, _, _, _, _, _)
\* The loop over declarator.id.elements from element i on (i counts from 1).
BindArrayPattern(es, os, env, elements, rightValue, i) ==
  IF i > Len(elements) THEN [ok |-> TRUE, envs |-> es, val |-> Undefined]
  ELSE LET element == elements[i]
       IN IF ~Present(element)
            THEN BindArrayPattern(es, os, env, elements, rightValue, i + 1)
          ELSE IF element.type # "Identifier"
            THEN [ok |-> FALSE, envs |-> es,
                  val |-> Err(<<"Unsupported array destructuring element: ", element.type>>)]
          ELSE LET got == GetMember(os, rightValue, ToString(i - 1))
               IN IF ~got.ok THEN [ok |-> FALSE, envs |-> es, val |-> got.val]
                  ELSE BindArrayPattern(define(es, env, element.name, got.val),
                                        os, env, elements, rightValue, i + 1)

\* What one declarator binds once its init has the value rightValue.
BindDeclarator(es, os, env, id, rightValue) ==
  IF id.type = "Identifier"
    THEN [ok |-> TRUE, envs |-> define(es, env, id.name, rightValue), val |-> Undefined]
  ELSE IF id.type = "ObjectPattern"
    THEN BindObjectPattern(es, os, env, id.properties, rightValue, 1)
  ELSE BindArrayPattern(es, os, env, id.elements, rightValue, 1)

\* The head of the loop over node.declarations at declarator i: [ctl, kont].
Declare(node, env, i, stack) ==
  LET declarator == node.declarations[i]
      suspended == Append(stack, Frame("evaluateVariableDeclaration", node, env, i, <<>>))
  IN IF declarator.id.type \notin {"Identifier", "ObjectPattern", "ArrayPattern"}
       THEN [ctl |-> Throw(Err(<<"Unsupported variable declaration pattern: ",
                                  declarator.id.type>>)),
             kont |-> stack]
     ELSE IF Present(declarator.init)
       THEN [ctl |-> Eval(declarator.init, env), kont |-> suspended]
     ELSE IF declarator.id.type = "Identifier"
       THEN [ctl |-> Ret(Undefined), kont |-> suspended]
     ELSE [ctl |-> Throw(TypeError(<<"Cannot read properties of null (reading 'type')">>)),
           kont |-> stack]

evaluateVariableDeclaration ==
  \/ /\ Entering("VariableDeclaration")
     /\ IF ctl.node.declarations = <<>>
          THEN Go(Ret(Undefined), kont)
          ELSE LET d == Declare(ctl.node, ctl.env, 1, kont) IN Go(d.ctl, d.kont)
  \/ /\ Returning("evaluateVariableDeclaration")
     /\ LET bound == BindDeclarator(envs, objs, Top.env,
                                    Top.node.declarations[Top.i].id, ctl.val)
            d == Declare(Top.node, Top.env, Top.i + 1, Pop)
        IN IF ~bound.ok
             THEN Step(Throw(bound.val), Pop, bound.envs, objs, trace)
           ELSE IF Top.i = Len(Top.node.declarations)
             THEN Step(Ret(Undefined), Pop, bound.envs, objs, trace)
           ELSE Step(d.ctl, d.kont, bound.envs, objs, trace)

(***************************************************************************)
(* Operators.                                                              *)
(***************************************************************************)
Thrown(error) == [ok |-> FALSE, val |-> error]
Value(val) == [ok |-> TRUE, val |-> val]

NumLessEq(a, b) == a.k # "nan" /\ b.k # "nan" /\ ~NumLess(b, a)

\* The switch of evaluateBinaryExpression: [ok, val].
BinaryOperation(operator, left, right) ==
  CASE operator = "+" -> Value(JsPlus(left, right))
    [] operator = "-" -> Value(NumAdd(ToNumber(left), NumNeg(ToNumber(right))))
    [] operator = "*" -> Value(NumMul(ToNumber(left), ToNumber(right)))
    [] operator = "/" -> Value(NumDiv(ToNumber(left), ToNumber(right)))
    [] operator = "%" -> Value(NumRem(ToNumber(left), ToNumber(right)))
    [] operator = "==" -> Value(Bool(LooseEquals(left, right)))
    [] operator = "!=" -> Value(Bool(~LooseEquals(left, right)))
    [] operator = "===" -> Value(Bool(StrictEquals(left, right)))
    [] operator = "!==" -> Value(Bool(~StrictEquals(left, right)))
    [] operator = "<" -> Value(JsLess(left, right))
    [] operator = ">" -> Value(JsLess(right, left))
    [] operator = "<=" -> Value(Bool(NumLessEq(ToNumber(left), ToNumber(right))))
    [] operator = ">=" -> Value(Bool(NumLessEq(ToNumber(right), ToNumber(left))))
    [] operator \notin { "+", "-", "*", "/", "%", "==", "!=", "===", "!==", "<", "<=",
                         ">", ">=", "|", "&", "^", "<<", ">>", ">>>" } ->
         Thrown(Err(<<"Unsupported binary operator: ", operator>>))

evaluateBinaryExpression ==
  \/ /\ Entering("BinaryExpression")
     /\ Go(Eval(ctl.node.left, ctl.env),
           Push(Frame("evaluateBinaryExpression", ctl.node, ctl.env, 1, <<>>)))
  \/ /\ Returning("evaluateBinaryExpression")
     /\ IF Top.i = 1
          THEN Go(Eval(Top.node.right, Top.env),
                  Replace([Top EXCEPT !.i = 2, !.acc = <<ctl.val>>]))
          ELSE LET done == BinaryOperation(Top.node.operator, Top.acc[1], ctl.val)
               IN Go(IF done.ok THEN Ret(done.val) ELSE Throw(done.val), Pop)

\* The switch of evaluateUnaryExpression: [ok, val].
UnaryOperation(operator, argument) ==
  CASE operator = "!" -> Value(Bool(~Truthy(argument)))
    [] operator = "-" -> Value(NumNeg(ToNumber(argument)))
    [] operator = "+" -> Value(ToNumber(argument))
    [] operator = "typeof" -> Value(Str(TypeOf(argument)))
    [] operator = "void" -> Value(Undefined)
    [] operator \notin {"!", "-", "+", "~", "typeof", "void", "delete"} ->
         Thrown(Err(<<"Unsupported unary operator: ", operator>>))

evaluateUnaryExpression ==
  \/ /\ Entering("UnaryExpression")
     /\ Go(Eval(ctl.node.argument, ctl.env),
           Push(Frame("evaluateUnaryExpression", ctl.node, ctl.env, 1, <<>>)))
  \/ /\ Returning("evaluateUnaryExpression")
     /\ LET done == UnaryOperation(Top.node.operator, ctl.val)
        IN Go(IF done.ok THEN Ret(done.val) ELSE Throw(done.val), Pop)

\* The right operand evaluated whatever the left one is.
EvaluatesRight(operator, left) == Value("right")

\* The switch of evaluateLogicalExpression on the value of the left operand:
\* "left" to return it, "right" to evaluate the right operand, or the error.
LogicalOperation(operator, left) ==
  CASE operator = "&&" -> Value(IF Truthy(left) THEN "right" ELSE "left")
    [] operator = "||" -> Value(IF Truthy(left) THEN "left" ELSE "right")
    [] operator = "??" -> Value(IF left.k \notin {"null", "undefined"} THEN "left" ELSE "right")
    [] operator \notin {"&&", "||", "??"} ->
         Thrown(Err(<<"Unsupported logical operator: ", operator>>))

evaluateLogicalExpression ==
  \/ /\ Entering("LogicalExpression")
     /\ Go(Eval(ctl.node.left, ctl.env),
           Push(Frame("evaluateLogicalExpression", ctl.node, ctl.env, 1, <<>>)))
  \/ /\ Returning("evaluateLogicalExpression")
     /\ LET taken == LogicalOperation(Top.node.operator, ctl.val)
        IN IF ~taken.ok THEN Go(Throw(taken.val), Pop)
           ELSE IF Top.i = 1 /\ taken.val = "right"
             THEN Go(Eval(Top.node.right, Top.env), Replace([Top EXCEPT !.i = 2]))
           ELSE Go(Ret(ctl.val), Pop)

RECURSIVE TemplateTurn(_, _, _, _, _)
\* The loop of evaluateTemplateLiteral from quasi i on, the text so far:
\* [ctl, kont].
TemplateTurn(node, env, i, text, stack) ==
  IF i > Len(node.quasis) THEN [ctl |-> Ret(Str(text)), kont |-> stack]
  ELSE IF i <= Len(node.expressions)
    THEN [ctl |-> Eval(node.expressions[i], env),
          kont |-> Append(stack, Frame("evaluateTemplateLiteral", node, env, i,
                                       <<text \o node.quasis[i].value.cooked>>))]
  ELSE TemplateTurn(node, env, i + 1, text \o node.quasis[i].value.cooked, stack)

evaluateTemplateLiteral ==
  \/ /\ Entering("TemplateLiteral")
     /\ LET turn == TemplateTurn(ctl.node, ctl.env, 1, "", kont)
        IN Go(turn.ctl, turn.kont)
  \/ /\ Returning("evaluateTemplateLiteral")
     /\ LET turn == TemplateTurn(Top.node, Top.env, Top.i + 1,
                                 Top.acc[1] \o ToStringJS(ctl.val), Pop)
        IN Go(turn.ctl, turn.kont)

evaluateConditionalExpression ==
  \/ /\ Entering("ConditionalExpression")
     /\ Go(Eval(ctl.node.test, ctl.env),
           Push(Frame("evaluateConditionalExpression", ctl.node, ctl.env, 1, <<>>)))
  \/ /\ Returning("evaluateConditionalExpression")
     /\ Go(Eval(IF Truthy(ctl.val) THEN Top.node.consequent ELSE Top.node.alternate,
                Top.env), Pop)

(***************************************************************************)
(* Loops.  A loop frame's i is the await it is suspended at.               *)
(***************************************************************************)
AtInit == 1
AtTest == 2
AtBody == 3
AtUpdate == 4

\* `if (!condition) break`
LoopEnds(condition) == ~Truthy(condition)

\* The result of the body never taken for a Return sentinel.
LoopGoesOn(bodyResult) == FALSE

\* `if (result instanceof ReturnValue) return result`
LoopReturns(bodyResult) == IsReturnValue(bodyResult)

\* The head of `while (true)` in evaluateForStatement: [ctl, kont].
ForTurn(node, loopEnv, stack) ==
  IF Present(node.test)
    THEN [ctl |-> Eval(node.test, loopEnv),
          kont |-> Append(stack, Frame("evaluateForStatement", node, loopEnv, AtTest, <<>>))]
    ELSE [ctl |-> Eval(node.body, loopEnv),
          kont |-> Append(stack, Frame("evaluateForStatement", node, loopEnv, AtBody, <<>>))]

evaluateForStatement ==
  \/ /\ Entering("ForStatement")
     /\ LET loopEnv == NewEnv(envs)
            turn == ForTurn(ctl.node, loopEnv, kont)
        IN IF Present(ctl.node.init)
             THEN Step(Eval(ctl.node.init, loopEnv),
                       Push(Frame("evaluateForStatement", ctl.node, loopEnv, AtInit, <<>>)),
                       Alloc(envs, <<>>, ctl.env), objs, trace)
             ELSE Step(turn.ctl, turn.kont, Alloc(envs, <<>>, ctl.env), objs, trace)
  \/ /\ Returning("evaluateForStatement")
     /\ Top.i \in {AtInit, AtUpdate}
     /\ LET turn == ForTurn(Top.node, Top.env, Pop) IN Go(turn.ctl, turn.kont)
  \/ /\ Returning("evaluateForStatement")
     /\ Top.i = AtTest
     /\ IF LoopEnds(ctl.val)
          THEN Go(Ret(Undefined), Pop)
          ELSE Go(Eval(Top.node.body, Top.env), Replace([Top EXCEPT !.i = AtBody]))
  \/ /\ Returning("evaluateForStatement")
     /\ Top.i = AtBody
     /\ LET turn == ForTurn(Top.node, Top.env, Pop)
        IN IF LoopReturns(ctl.val) THEN Go(Ret(ctl.val), Pop)
           ELSE IF Present(Top.node.update)
             THEN Go(Eval(Top.node.update, Top.env), Replace([Top EXCEPT !.i = AtUpdate]))
           ELSE Go(turn.ctl, turn.kont)

evaluateWhileStatement ==
  \/ /\ Entering("WhileStatement")
     /\ Go(Eval(ctl.node.test, ctl.env),
           Push(Frame("evaluateWhileStatement", ctl.node, ctl.env, AtTest, <<>>)))
  \/ /\ Returning("evaluateWhileStatement")
     /\ Top.i = AtTest
     /\ IF LoopEnds(ctl.val)
          THEN Go(Ret(Undefined), Pop)
          ELSE Go(Eval(Top.node.body, Top.env), Replace([Top EXCEPT !.i = AtBody]))
  \/ /\ Returning("evaluateWhileStatement")
     /\ Top.i = AtBody
     /\ IF LoopReturns(ctl.val)
          THEN Go(Ret(ctl.val), Pop)
          ELSE Go(Eval(Top.node.test, Top.env), Replace([Top EXCEPT !.i = AtTest]))

(***************************************************************************)
(* Object and array literals.  The object exists from the first line of    *)
(* the method on; acc is <<the object>> or <<the object, the key>>.        *)
(***************************************************************************)
NewRef(os) == Len(os) + 1

\* The head of the loop over node.properties at property i: [ctl, kont].
Property(node, env, i, object, stack) ==
  LET property == node.properties[i]
  IN IF property.computed
       THEN [ctl |-> Eval(property.key, env),
             kont |-> Append(stack, Frame("evaluateObjectExpression", node, env, i,
                                          <<object>>))]
     ELSE IF property.key.type = "Identifier"
       THEN [ctl |-> Eval(property.value, env),
             kont |-> Append(stack, Frame("evaluateObjectExpression", node, env, i,
                                          <<object, Str(property.key.name)>>))]
     ELSE IF property.key.type = "Literal"
       THEN [ctl |-> Eval(property.value, env),
             kont |-> Append(stack, Frame("evaluateObjectExpression", node, env, i,
                                          <<object, property.key.value>>))]
     ELSE [ctl |-> Throw(Err(<<"Unsupported property key type">>)), kont |-> stack]

evaluateObjectExpression ==
  \/ /\ Entering("ObjectExpression")
     /\ LET obj == Obj(NewRef(objs))
            first == Property(ctl.node, ctl.env, 1, obj, kont)
        IN IF ctl.node.properties = <<>>
             THEN Step(Ret(obj), kont, envs, Append(objs, PlainObject(<<>>, <<>>)), trace)
             ELSE Step(first.ctl, first.kont, envs,
                       Append(objs, PlainObject(<<>>, <<>>)), trace)
  \/ /\ Returning("evaluateObjectExpression")
     /\ Len(Top.acc) = 1
     /\ Go(Eval(Top.node.properties[Top.i].value, Top.env),
           Replace([Top EXCEPT !.acc = Append(@, ctl.val)]))
  \/ /\ Returning("evaluateObjectExpression")
     /\ Len(Top.acc) = 2
     /\ LET obj == Top.acc[1]
            stored == [objs EXCEPT ![obj.v] =
                         PutProperty(@, ToPropertyKey(Top.acc[2]), ctl.val)]
            next == Property(Top.node, Top.env, Top.i + 1, obj, Pop)
        IN IF Top.i = Len(Top.node.properties)
             THEN Step(Ret(obj), Pop, envs, stored, trace)
             ELSE Step(next.ctl, next.kont, envs, stored, trace)

RECURSIVE Holes(_, _)
\* The elements before index i that are holes (null), i itself included.
Holes(elements, i) ==
  IF i > Len(elements) \/ Present(elements[i]) THEN 0 ELSE 1 + Holes(elements, i + 1)

Undefineds(n) == [j \in 1..n |-> Undefined]

\* The loop of evaluateArrayExpression from element i on, with `array` so far.
Element(node, env, i, array, stack) ==
  LET skipped == Holes(node.elements, i)
      filled == array \o Undefineds(skipped)
  IN IF i + skipped > Len(node.elements)
       THEN [ctl |-> Ret(Undefined), kont |-> stack, array |-> filled, done |-> TRUE]
       ELSE [ctl |-> Eval(node.elements[i + skipped], env),
             kont |-> Append(stack, Frame("evaluateArrayExpression", node, env,
                                          i + skipped, filled)),
             array |-> filled, done |-> FALSE]

evaluateArrayExpression ==
  \/ /\ Entering("ArrayExpression")
     /\ LET first == Element(ctl.node, ctl.env, 1, <<>>, kont)
        IN IF first.done
             THEN Step(Ret(Arr(NewRef(objs))), kont, envs,
                       Append(objs, ArrayObject(first.array)), trace)
             ELSE Go(first.ctl, first.kont)
  \/ /\ Returning("evaluateArrayExpression")
     /\ LET next == Element(Top.node, Top.env, Top.i + 1, Append(Top.acc, ctl.val), Pop)
        IN IF next.done
             THEN Step(Ret(Arr(NewRef(objs))), Pop, envs,
                       Append(objs, ArrayObject(next.array)), trace)
             ELSE Go(next.ctl, next.kont)


(***************************************************************************)
(* Assignment and update.                                                  *)
(***************************************************************************)
\* The switch over node.operator: the value stored, given the old one.
AssignOperation(operator, old, right) ==
  CASE operator = "=" -> Value(right)
    [] operator = "+=" -> Value(JsPlus(old, right))
    [] operator = "-=" -> Value(NumAdd(ToNumber(old), NumNeg(ToNumber(right))))
    [] operator = "*=" -> Value(NumMul(ToNumber(old), ToNumber(right)))
    [] operator = "/=" -> Value(NumDiv(ToNumber(old), ToNumber(right)))
    [] operator = "%=" -> Value(NumRem(ToNumber(old), ToNumber(right)))
    [] operator = "**=" -> Value(NumPow(ToNumber(old), ToNumber(right)))
    [] operator \notin { "=", "+=", "-=", "*=", "/=", "%=", "**=", "<<=", ">>=", ">>>=",
                         "|=", "^=", "&=" } ->
         Thrown(Err(<<"Unsupported assignment operator: ", operator>>))

\* ++ and -- of evaluateUpdateExpression.
UpdateOperation(operator, old) ==
  CASE operator = "++" -> Value(JsPlus(old, Num(1)))
    [] operator = "--" -> Value(NumAdd(ToNumber(old), Num(-1)))
    [] operator \notin {"++", "--"} ->
         Thrown(Err(<<"Unsupported update operator: ", operator>>))

\* The frame the walk over the chain stops at (0: none holds the name).
AssignTarget(es, env, name) == DefiningEnv(es, env, name)

\* Assignment to an identifier (lines 563-599): [ok, envs, val].
AssignIdentifier(es, env, name, operator, right) ==
  LET currentEnv == AssignTarget(es, env, name)
      applied == AssignOperation(operator, GetProperty(es[currentEnv].variables, name), right)
  IN IF currentEnv # 0
       THEN IF applied.ok
              THEN [ok |-> TRUE, envs |-> define(es, currentEnv, name, applied.val),
                    val |-> applied.val]
              ELSE [ok |-> FALSE, envs |-> es, val |-> applied.val]
     ELSE IF operator = "="
       THEN [ok |-> TRUE, envs |-> define(es, env, name, right), val |-> right]
     ELSE [ok |-> FALSE, envs |-> es,
           val |-> Err(<<"Cannot use operator ", operator, " on undefined variable ", name>>)]

\* Update of an identifier (lines 633-657): [ok, envs, val].
UpdateIdentifier(es, env, name, operator, prefix) ==
  LET currentEnv == AssignTarget(es, env, name)
      oldValue == GetProperty(es[currentEnv].variables, name)
      applied == UpdateOperation(operator, oldValue)
  IN IF currentEnv = 0
       THEN [ok |-> FALSE, envs |-> es,
             val |-> Err(<<"Cannot update undefined variable ", name>>)]
     ELSE IF ~applied.ok
       THEN [ok |-> FALSE, envs |-> es, val |-> applied.val]
     ELSE [ok |-> TRUE, envs |-> define(es, currentEnv, name, applied.val),
           val |-> IF prefix THEN applied.val ELSE oldValue]

\* object[property] <op>= right, or object[property]++ when right is absent,
\* on a guest object: [ok, objs, val].
MutateMember(os, node, object, key, right) ==
  LET old == GetProperty(os[object.v].props, key)
      applied == IF node.type = "AssignmentExpression"
                   THEN AssignOperation(node.operator, old, right)
                   ELSE UpdateOperation(node.operator, old)
  IN IF object.k \in {"undefined", "null"}
       THEN [ok |-> FALSE, objs |-> os,
             val |-> TypeError(<<"Cannot read properties of ", object.k>>)]
     ELSE IF ~applied.ok
       THEN [ok |-> FALSE, objs |-> os, val |-> applied.val]
     ELSE [ok |-> TRUE,
           objs |-> [os EXCEPT ![object.v] = PutProperty(@, key, applied.val)],
           val |-> IF node.type = "UpdateExpression" /\ ~node.prefix
                     THEN old ELSE applied.val]

\* The member an assignment or an update works on.
MemberOf(node) == IF node.type = "AssignmentExpression" THEN node.left ELSE node.argument

\* Suspended at: the right-hand side, the object, the computed property.
AtRight == 1
AtObject == 2
AtProperty == 3

\* The tail both methods share once the object is known: [ctl, kont, objs].
MemberTail(os, frame, object, stack) ==
  LET member == MemberOf(frame.node)
      done == MutateMember(os, frame.node, object, member.property.name,
                           IF frame.acc = <<>> THEN Undefined ELSE frame.acc[1])
  IN IF member.computed
       THEN [ctl |-> Eval(member.property, frame.env), objs |-> os,
             kont |-> Append(stack, [frame EXCEPT !.i = AtProperty,
                                                  !.acc = Append(@, object)])]
       ELSE [ctl |-> IF done.ok THEN Ret(done.val) ELSE Throw(done.val),
             objs |-> done.objs, kont |-> stack]

evaluateAssignmentExpression ==
  \/ /\ Entering("AssignmentExpression")
     /\ Go(Eval(ctl.node.right, ctl.env),
           Push(Frame("evaluateAssignmentExpression", ctl.node, ctl.env, AtRight, <<>>)))
  \/ /\ Returning("evaluateAssignmentExpression")
     /\ Top.i = AtRight
     /\ LET left == Top.node.left
            done == AssignIdentifier(envs, Top.env, left.name, Top.node.operator, ctl.val)
        IN IF left.type = "Identifier"
             THEN Step(IF done.ok THEN Ret(done.val) ELSE Throw(done.val),
                       Pop, done.envs, objs, trace)
           ELSE IF left.type = "MemberExpression"
             THEN Go(Eval(left.object, Top.env),
                     Replace([Top EXCEPT !.i = AtObject, !.acc = <<ctl.val>>]))
           ELSE Go(Throw(Err(<<"Unsupported assignment target">>)), Pop)
  \/ /\ Returning("evaluateAssignmentExpression")
     /\ Top.i = AtObject
     /\ LET tail == MemberTail(objs, Top, ctl.val, Pop)
        IN Step(tail.ctl, tail.kont, envs, tail.objs, trace)
  \/ /\ Returning("evaluateAssignmentExpression")
     /\ Top.i = AtProperty
     /\ LET done == MutateMember(objs, Top.node, Top.acc[2], ToPropertyKey(ctl.val),
                                 Top.acc[1])
        IN Step(IF done.ok THEN Ret(done.val) ELSE Throw(done.val),
                Pop, envs, done.objs, trace)

evaluateUpdateExpression ==
  \/ /\ Entering("UpdateExpression")
     /\ LET argument == ctl.node.argument
            done == UpdateIdentifier(envs, ctl.env, argument.name, ctl.node.operator,
                                     ctl.node.prefix)
        IN IF argument.type = "Identifier"
             THEN Step(IF done.ok THEN Ret(done.val) ELSE Throw(done.val),
                       kont, done.envs, objs, trace)
           ELSE IF argument.type = "MemberExpression"
             THEN Go(Eval(argument.object, ctl.env),
                     Push(Frame("evaluateUpdateExpression", ctl.node, ctl.env, AtObject, <<>>)))
           ELSE Go(Throw(Err(<<"Unsupported update target">>)), kont)
  \/ /\ Returning("evaluateUpdateExpression")
     /\ IF Top.i = AtObject
          THEN LET tail == MemberTail(objs, Top, ctl.val, Pop)
               IN Step(tail.ctl, tail.kont, envs, tail.objs, trace)
          ELSE LET done == MutateMember(objs, Top.node, Top.acc[1],
                                        ToPropertyKey(ctl.val), Undefined)
               IN Step(IF done.ok THEN Ret(done.val) ELSE Throw(done.val),
                       Pop, envs, done.objs, trace)

(***************************************************************************)
(* try / catch / finally (lines 709-735).                                  *)
(***************************************************************************)
AtBlock == 1
AtHandler == 2
AtFinalizer == 3

\* No finally clause run: the completion goes straight to the caller.
NoFinally(node, env, completion, stack) == [ctl |-> completion, kont |-> stack]

\* A finally clause run only when nothing was thrown.
FinallyUnlessThrown(node, env, completion, stack) ==
  IF Present(node.finalizer) /\ completion.m = "ret"
    THEN [ctl |-> Eval(node.finalizer, env),
          kont |-> Append(stack, Frame("evaluateTryStatement", node, env, AtFinalizer,
                                       <<completion>>))]
    ELSE [ctl |-> completion, kont |-> stack]

\* The finally clause, entered with the completion the try/catch settled on:
\* [ctl, kont].
Finally(node, env, completion, stack) ==
  IF Present(node.finalizer)
    THEN [ctl |-> Eval(node.finalizer, env),
          kont |-> Append(stack, Frame("evaluateTryStatement", node, env, AtFinalizer,
                                       <<completion>>))]
    ELSE [ctl |-> completion, kont |-> stack]

\* A catch clause that binds the error in the environment of the try statement
\* and runs its block there.
CatchInPlace(es, node, env, error, stack) ==
  LET param == node.handler.param
      rethrown == Finally(node, env, Throw(error), stack)
  IN IF IsReturnValue(error) \/ ~Present(node.handler)
       THEN [ctl |-> rethrown.ctl, kont |-> rethrown.kont, envs |-> es]
       ELSE [ctl |-> Eval(node.handler.body, env),
             kont |-> Append(stack, Frame("evaluateTryStatement", node, env, AtHandler, <<>>)),
             envs |-> IF Present(param) /\ param.type = "Identifier"
                        THEN define(es, env, param.name, error)
                        ELSE es]

\* The catch clause, entered with the error the try block threw: [ctl, kont, envs].
Catch(es, node, env, error, stack) ==
  LET catchEnv == NewEnv(es)
      param == node.handler.param
      rethrown == Finally(node, env, Throw(error), stack)
  IN IF IsReturnValue(error) \/ ~Present(node.handler)
       THEN [ctl |-> rethrown.ctl, kont |-> rethrown.kont, envs |-> es]
       ELSE [ctl |-> Eval(node.handler.body, catchEnv),
             kont |-> Append(stack, Frame("evaluateTryStatement", node, env, AtHandler, <<>>)),
             envs |-> IF Present(param) /\ param.type = "Identifier"
                        THEN define(Alloc(es, <<>>, env), catchEnv, param.name, error)
                        ELSE Alloc(es, <<>>, env)]

evaluateTryStatement ==
  \/ /\ Entering("TryStatement")
     /\ Go(Eval(ctl.node.block, ctl.env),
           Push(Frame("evaluateTryStatement", ctl.node, ctl.env, AtBlock, <<>>)))
  \/ /\ Returning("evaluateTryStatement")
     /\ LET finally == Finally(Top.node, Top.env, ctl, Pop)
        IN IF Top.i = AtFinalizer
             THEN Go(Top.acc[1], Pop)
             ELSE Go(finally.ctl, finally.kont)
  \/ /\ Throwing("evaluateTryStatement")
     /\ LET catch == Catch(envs, Top.node, Top.env, ctl.val, Pop)
            finally == Finally(Top.node, Top.env, ctl, Pop)
        IN IF Top.i = AtBlock
             THEN Step(catch.ctl, catch.kont, catch.envs, objs, trace)
           ELSE IF Top.i = AtHandler
             THEN Go(finally.ctl, finally.kont)
           ELSE Go(ctl, Pop)


Next ==
  \/ executeFragment
  \/ executeProgram
  \/ executeLine
  \/ lineSettled
  \/ fragmentDone
  \/ programSettled
  \/ execute
  \/ executeSettled
  \/ eventLoopTurn
  \/ evaluateNodeDefault
  \/ propagate
  \/ evaluateProgram
  \/ evaluateExpressionStatement
  \/ evaluateIdentifier
  \/ evaluateLiteral
  \/ evaluateAwaitExpression
  \/ evaluateMemberExpression
  \/ evaluateCallExpression
  \/ contextLog
  \/ forward
  \/ callNative
  \/ evaluateFunctionDeclaration
  \/ evaluateArrowFunctionExpression
  \/ createFunction
  \/ evaluateReturnStatement
  \/ evaluateBlockStatement
  \/ evaluateIfStatement
  \/ evaluateVariableDeclaration
  \/ evaluateBinaryExpression
  \/ evaluateLogicalExpression
  \/ evaluateUnaryExpression
  \/ evaluateTemplateLiteral
  \/ evaluateConditionalExpression
  \/ evaluateForStatement
  \/ evaluateWhileStatement
  \/ evaluateObjectExpression
  \/ evaluateArrayExpression
  \/ evaluateAssignmentExpression
  \/ evaluateUpdateExpression
  \/ evaluateTryStatement

Spec == Init /\ [][Next]_vars

(***************************************************************************)
(* What the run shows to the outside.                                      *)
(***************************************************************************)
Finished == pc \in {"done", "rejected"}

\* The log-callback invocations of the guest and the host-object calls started,
\* in the order they happened.
IsEffect(event) ==
  \/ event.e = "log" /\ event.at = <<"guest">>
  \/ event.e = "host"

Effect(e, at, args) == [e |-> e, at |-> at, args |-> args]

Effects ==
  LET started == SelectSeq(trace, IsEffect)
  IN [i \in 1..Len(started) |-> Effect(started[i].e, started[i].at, started[i].args)]

\* The arguments the guest's log calls were made with.
GuestLogs ==
  LET logs == SelectSeq(trace, LAMBDA event : event.e = "log" /\ event.at = <<"guest">>)
  IN [i \in 1..Len(logs) |-> logs[i].val]

\* The messages the log callback got from executeScript itself.
ErrorLogs(by) ==
  SelectSeq(trace, LAMBDA event : event.e = "log" /\ event.at = <<by>>)

IsPrefix(short, long) ==
  /\ Len(short) <= Len(long)
  /\ \A i \in 1..Len(short) : short[i] = long[i]

(***************************************************************************)
(* The host wrapper.                                                       *)
(***************************************************************************)
\* C1: every invocation of a method through the host wrapper writes exactly one
\* line naming the dotted path and the arguments before the real method begins,
\* then calls the real method once with the same arguments, and settles exactly
\* as the real method did.
HostWrapperForwards ==
  \A i \in 1..Len(trace) :
    trace[i].e = "forward" =>
      /\ i + 2 <= Len(trace)
      /\ trace[i + 1].e = "console"
      /\ trace[i + 1].at = trace[i].at
      /\ Len(trace[i + 1].args) = Len(trace[i].args)
      /\ trace[i + 1].val =
           Str(CallingLine(trace[i].at,
                           [n \in 1..Len(trace[i].args) |-> trace[i + 1].args[n].v]))
      /\ trace[i + 2].e = "host"
      /\ trace[i + 2].at = trace[i].at
      /\ trace[i + 2].args = trace[i].args
      /\ i + 3 <= Len(trace) =>
           /\ trace[i + 3].e = "settled"
           /\ trace[i + 4].e = "forwarded"
           /\ trace[i + 4].args = trace[i + 3].args
           /\ trace[i + 4].val = trace[i + 3].val

(***************************************************************************)
(* Evaluation order.                                                       *)
(***************************************************************************)
RECURSIVE MemberPath(_)
\* The dotted path a chain of plain member accesses spells, <<>> for any other
\* expression.
MemberPath(node) ==
  IF node.type = "Identifier" THEN <<node.name>>
  ELSE IF node.type = "MemberExpression" /\ ~node.computed
            /\ MemberPath(node.object) # <<>>
    THEN Append(MemberPath(node.object), node.property.name)
  ELSE <<>>

RECURSIVE IsStraightLine(_)
\* A program of declarations and calls of log and of the host's methods only.
IsStraightLine(node) ==
  CASE node.type = "Program" -> \A i \in 1..Len(node.body) : IsStraightLine(node.body[i])
    [] node.type = "ExpressionStatement" -> IsStraightLine(node.expression)
    [] node.type = "AwaitExpression" -> IsStraightLine(node.argument)
    [] node.type = "VariableDeclaration" ->
         \A i \in 1..Len(node.declarations) :
           /\ node.declarations[i].id.type = "Identifier"
           /\ node.declarations[i].id.name \notin {"log", "page"}
           /\ Present(node.declarations[i].init)
           /\ IsStraightLine(node.declarations[i].init)
    [] node.type = "CallExpression" ->
         /\ \/ node.callee.type = "CallExpression" /\ IsStraightLine(node.callee)
            \/ node.callee = Id("log")
            \/ MemberPath(node.callee) \in HostMethods
         /\ \A i \in 1..Len(node.arguments) : IsStraightLine(node.arguments[i])
    [] node.type = "Literal" -> TRUE
    [] OTHER -> FALSE

RECURSIVE ValueInOrder(_)
\* What an expression of a straight-line program is worth when every host call
\* resolves.
ValueInOrder(node) ==
  CASE node.type = "Literal" -> node.value
    [] node.type = "AwaitExpression" -> ValueInOrder(node.argument)
    [] node.type = "CallExpression" ->
         IF MemberPath(node.callee) \in HostMethods
           THEN HostResult(MemberPath(node.callee)) ELSE Undefined

RECURSIVE EffectsInOrder(_)
RECURSIVE EffectsOfAll(_)
\* The effects of the nodes of a sequence, one node after the other.
EffectsOfAll(nodes) ==
  IF nodes = <<>> THEN <<>>
  ELSE EffectsInOrder(Head(nodes)) \o EffectsOfAll(Tail(nodes))

\* The effects of a straight-line program read off its text: statement after
\* statement, and for a call the callee's, then each argument's from left to
\* right, then the call's own.
EffectsInOrder(node) ==
  CASE node.type = "Program" -> EffectsOfAll(node.body)
    [] node.type = "ExpressionStatement" -> EffectsInOrder(node.expression)
    [] node.type = "AwaitExpression" -> EffectsInOrder(node.argument)
    [] node.type = "VariableDeclaration" ->
         EffectsOfAll([i \in 1..Len(node.declarations) |-> node.declarations[i].init])
    [] node.type = "CallExpression" ->
         LET args == [i \in 1..Len(node.arguments) |-> ValueInOrder(node.arguments[i])]
         IN EffectsInOrder(node.callee) \o EffectsOfAll(node.arguments) \o
            (IF node.callee = Id("log") THEN <<Effect("log", <<"guest">>, args)>>
             ELSE IF MemberPath(node.callee) \in HostMethods
               THEN <<Effect("host", MemberPath(node.callee), args)>>
             ELSE <<>>)
    [] OTHER -> <<>>

StraightLine == ~isFunctionBody(scriptCode) /\ IsStraightLine(scriptCode.ast)

\* C2: the log calls and host calls of a run start in the order of evaluation of
\* their nodes (statements in source order, callee before arguments, arguments
\* left to right): what has started is always a beginning of that order, and all
\* of it once the run completes.
EffectsInEvaluationOrder ==
  StraightLine =>
    /\ IsPrefix(Effects, EffectsInOrder(scriptCode.ast))
    /\ pc = "done" => Effects = EffectsInOrder(scriptCode.ast)

\* A run of the ordering script has made its last call: log('c'), the second
\* argument of a call whose callee and first argument were calls too.
EffectsInEvaluationOrderReached ==
  /\ scriptCode.name = "ordering"
  /\ Finished
  /\ Len(Effects) = Len(EffectsInOrder(scriptCode.ast)) - 1

(***************************************************************************)
(* Fragments and complete programs.                                        *)
(***************************************************************************)
\* The turns of the loop over the lines, in the order they were taken.
Attempts ==
  SelectSeq(trace, LAMBDA event :
    event.e = "line" /\ event.at[1] \in {"skipped", "parsed", "unparsable"})

\* The lines that failed, at parsing or at evaluation.
Failures ==
  SelectSeq(trace, LAMBDA event :
    event.e = "line" /\ event.at[1] \in {"unparsable", "threw"})

\* C3: in fragment mode every line that is not skipped is parsed and evaluated,
\* in source order, whatever happened to the lines before it; each failing line
\* (at parsing or at evaluation) puts exactly one error message through the log
\* callback, and executeScript completes without throwing.
FragmentRecoversPerLine ==
  isFunctionBody(scriptCode) =>
    /\ pc # "rejected"
    /\ ErrorLogs("executeScript") = <<>>
    /\ \A i \in 1..Len(Attempts) :
         /\ Attempts[i].val = Num(i)
         /\ Attempts[i].at = <<"skipped">> <=> Skips(Trim(scriptCode.lines[i].text))
    /\ pc = "done" => Len(Attempts) = Len(scriptCode.lines)
    /\ \A i \in 1..Len(trace) :
         /\ trace[i] \in {Line("parsed", n) : n \in 1..Len(scriptCode.lines)} =>
              \/ pc = "run" /\ trace[i].val = Num(lineNo)
              \/ \E j \in i + 1..Len(trace) :
                   trace[j] \in {Line("returned", trace[i].val.v),
                                 Line("threw", trace[i].val.v)}
         /\ (trace[i].e = "line" /\ trace[i].at[1] \in {"unparsable", "threw"}) =>
              /\ i < Len(trace)
              /\ trace[i + 1].e = "log"
              /\ trace[i + 1].at = <<"executeLine">>
    /\ Len(ErrorLogs("executeLine")) = Len(Failures)

\* Both clicks were made although the first one failed, and the run completed.
FragmentRecoversPerLineReached ==
  /\ scriptCode.name = "two-clicks"
  /\ pc = "done"
  /\ Len(Effects) = 2
  /\ \E i \in 1..Len(trace) : trace[i] = Line("threw", 1)
  /\ \E i \in 1..Len(trace) : trace[i] = Line("returned", 2)

\* A failure no try statement of the guest is around.
UncaughtFailure ==
  /\ ~isFunctionBody(scriptCode)
  /\ pc = "run"
  /\ ctl.m = "throw"
  /\ \A i \in 1..Len(kont) : kont[i].f # "evaluateTryStatement"

ProgramReportsOnce ==
  ~isFunctionBody(scriptCode) =>
    /\ ErrorLogs("executeLine") = <<>>
    /\ pc = "done" => ErrorLogs("executeScript") = <<>>
    /\ pc = "rejected" =>
         /\ result.k = "error"
         /\ ErrorLogs("executeScript") =
              <<Logged("executeScript",
                       Str("Error executing script: " \o MessageOf(result)))>>
         /\ trace[Len(trace)] = ErrorLogs("executeScript")[1]

NothingAfterFailure ==
  UncaughtFailure =>
    \/ /\ UncaughtFailure'
       /\ ctl' = ctl
       /\ UNCHANGED <<envs, objs, trace>>
    \/ /\ pc' = "rejected"
       /\ result' = ctl.val

\* C4: in whole-program mode the first uncaught failure aborts the run: nothing
\* is evaluated after it (no later host call or log call), it is reported once
\* through the log callback, and executeScript rejects with that same error.
ProgramFailsFast == []ProgramReportsOnce /\ [][NothingAfterFailure]_vars

\* The first click failed: the second was never made and the run was rejected.
ProgramFailsFastReached ==
  /\ scriptCode.name = "two-clicks-program"
  /\ pc = "rejected"
  /\ Len(Effects) = 1
  /\ result = HostError(<<"page", "click">>)

(***************************************************************************)
(* Closures.                                                               *)
(***************************************************************************)
\* C5: the body of a closure is evaluated in a new child frame of the
\* environment captured at its creation, not of the call site's: a function
\* returned from another one still reads and mutates the outer one's locals after
\* the outer call has returned (1, then 2), and a name defined only in the frames
\* of the call site is not visible in the body.
ClosuresCaptureDefiningEnv ==
  /\ \A i \in 1..Len(kont) :
       kont[i].f = "createFunction" =>
         envs[kont[i].env].parent = kont[i].acc[1].v.env
  /\ (scriptCode.name = "closures" /\ Finished) =>
       /\ GuestLogs = <<Num(1), Num(2)>>
       /\ pc = "rejected"
       /\ result = Err(<<"Variable '", "y", "' is not defined">>)

\* g is being called from h, whose frame defines y, while g was created in the
\* global frame.
ClosuresCaptureDefiningEnvReached ==
  /\ scriptCode.name = "closures"
  /\ kont # <<>>
  /\ Top.f = "createFunction"
  /\ Len(kont) > 2
  /\ Top.acc[1].v.env = globalEnv
  /\ lookup(envs, kont[Len(kont) - 1].env, "y").ok
  /\ ~lookup(envs, Top.env, "y").ok

(***************************************************************************)
(* Assignment and update through the chain.                                *)
(***************************************************************************)
RECURSIVE FrameDefining(_, _, _)
\* The innermost frame of the chain from env that has a binding of its own for
\* the name, 0 when no frame defines it.
FrameDefining(es, env, name) ==
  IF env = 0 THEN 0
  ELSE IF name \in DOMAIN es[env].variables THEN env
  ELSE FrameDefining(es, es[env].parent, name)

\* The assignment or update to an identifier the next step applies, if any.
IdentifierMutation ==
  IF Entering("UpdateExpression") /\ ctl.node.argument.type = "Identifier"
    THEN [on |-> TRUE, name |-> ctl.node.argument.name, env |-> ctl.env,
          compound |-> TRUE]
  ELSE IF /\ Returning("evaluateAssignmentExpression")
          /\ Top.i = AtRight
          /\ Top.node.left.type = "Identifier"
    THEN [on |-> TRUE, name |-> Top.node.left.name, env |-> Top.env,
          compound |-> Top.node.operator # "="]
  ELSE [on |-> FALSE, name |-> "", env |-> 0, compound |-> FALSE]

MutatesDefiningFrameOnly ==
  IdentifierMutation.on =>
    LET name == IdentifierMutation.name
        target == FrameDefining(envs, IdentifierMutation.env, name)
    IN IF target # 0
         THEN /\ Len(envs') = Len(envs)
              /\ ctl'.m = "ret"
              /\ DOMAIN envs'[target].variables = DOMAIN envs[target].variables
              /\ \A e \in 1..Len(envs) : e # target => envs'[e] = envs[e]
         ELSE IdentifierMutation.compound => (ctl'.m = "throw" /\ envs' = envs)

\* let x = 1; function f(){ x += 1; return x; } yields 2 then 3.
MutationThroughTheChain ==
  (scriptCode.name = "mutation" /\ Finished) =>
    /\ Len(GuestLogs) >= 2
    /\ GuestLogs[1] = Num(2)
    /\ GuestLogs[2] = Num(3)

\* C6: an assignment (plain or compound) or a ++/-- update to an identifier that
\* a frame of the chain defines mutates the binding in the innermost such frame
\* and creates or changes no binding in any other frame; a compound operator or
\* an update on a name no frame defines raises an error and creates no binding.
AssignmentMutatesDefiningFrame ==
  []MutationThroughTheChain /\ [][MutatesDefiningFrameOnly]_vars

(***************************************************************************)
(* try / catch / finally.                                                  *)
(***************************************************************************)
\* When the try block does not throw, the handler is not run and `done` is
\* still logged.
QuietTryLogsDone ==
  (scriptCode.name = "try-quiet" /\ Finished) =>
    /\ pc = "done"
    /\ GuestLogs = <<Str("tried"), Str("done")>>

\* C7 as the specification states it: try { throw new Error('x') }
\* catch(e) { log(e.message) } finally { log('done') } calls the log callback
\* with `x` and then with `done`; and when the try block does not throw, `done`
\* is still logged.
TryLogsThrownMessageThenDone ==
  /\ (scriptCode.name = "try-throw" /\ Finished) =>
       GuestLogs = <<Str("x"), Str("done")>>
  /\ QuietTryLogsDone

\* C7: the same script calls the log callback with `Unsupported node type:
\* ThrowStatement` (the evaluator has no throw statement: the try block fails
\* with that error, which the handler catches) and then with `done`, and the
\* run completes; and when the try block does not throw, `done` is still logged.
TryLogsUnsupportedThenDone ==
  /\ (scriptCode.name = "try-throw" /\ Finished) =>
       /\ pc = "done"
       /\ GuestLogs = <<Str("Unsupported node type: ThrowStatement"), Str("done")>>
  /\ QuietTryLogsDone

\* The script with the throw statement has run to its end.
TryLogsUnsupportedThenDoneReached ==
  /\ scriptCode.name = "try-throw"
  /\ pc = "done"
  /\ Len(GuestLogs) = 2

(***************************************************************************)
(* Destructuring.                                                          *)
(***************************************************************************)
\* The sub-bindings of a pattern: its properties or its elements that are there.
SubBindings(id) ==
  IF id.type = "ObjectPattern" THEN id.properties
  ELSE SelectSeq(id.elements, Present)

\* The target of a sub-binding.
TargetOf(sub) == IF sub.type = "Property" THEN sub.value ELSE sub

\* Direct identifier sub-bindings only.
IsSingleLevel(id) ==
  \A i \in 1..Len(SubBindings(id)) : TargetOf(SubBindings(id)[i]).type = "Identifier"

\* Object keys written as plain names, array elements by position.
HasPlainKeys(id) ==
  \A i \in 1..Len(SubBindings(id)) :
    LET sub == SubBindings(id)[i]
    IN sub.type = "Property" => (~sub.computed /\ sub.key.type = "Identifier")

\* The key a property of an object pattern names in the scope env.
KeyNamed(es, env, property) ==
  IF property.computed
    THEN (IF property.key.type = "Identifier"
            THEN ToPropertyKey(lookup(es, env, property.key.name).val)
            ELSE ToPropertyKey(property.key.value))
  ELSE IF property.key.type = "Identifier" THEN property.key.name
  ELSE ToPropertyKey(property.key.value)

\* Every identifier target of the pattern is bound in frame env of es to the
\* property or element of value it corresponds to.
BoundAsWritten(es, os, env, id, value) ==
  IF id.type = "ObjectPattern"
    THEN \A i \in 1..Len(id.properties) :
           GetProperty(es[env].variables, id.properties[i].value.name) =
             GetMember(os, value, KeyNamed(es, env, id.properties[i])).val
    ELSE \A i \in 1..Len(id.elements) :
           Present(id.elements[i]) =>
             GetProperty(es[env].variables, id.elements[i].name) =
               GetMember(os, value, ToString(i - 1)).val

\* An Error that says what is not supported.
IsUnsupportedPatternError(completion) ==
  /\ completion.m = "throw"
  /\ completion.val.k = "error"
  /\ completion.val.v.name = "Error"
  /\ completion.val.v.message[1] \in
       { "Unsupported destructuring pattern: ", "Unsupported property key type: ",
         "Unsupported array destructuring element: ",
         "Unsupported variable declaration pattern: " }

DestructuringStep ==
  /\ Returning("evaluateVariableDeclaration")
  /\ Top.node.declarations[Top.i].id.type \in {"ObjectPattern", "ArrayPattern"}

BindsOrRefuses ==
  DestructuringStep =>
    LET id == Top.node.declarations[Top.i].id
        bound == /\ ctl'.m # "throw"
                 /\ BoundAsWritten(envs', objs, Top.env, id, ctl.val)
    IN IF ~IsSingleLevel(id) THEN IsUnsupportedPatternError(ctl')
       ELSE IF HasPlainKeys(id) THEN bound
       ELSE bound \/ IsUnsupportedPatternError(ctl')

\* C8: a declaration with single-level object or array destructuring binds each
\* identifier target to the corresponding property or element of the
\* initializer's value; a pattern with anything but direct identifier
\* sub-bindings raises an explicit unsupported-pattern error instead of
\* completing or binding a wrong value.
DestructuringBindsOrRefuses == [][BindsOrRefuses]_vars

(***************************************************************************)
(* Loops.                                                                  *)
(***************************************************************************)
InLoop(stack) ==
  /\ stack # <<>>
  /\ stack[Len(stack)].f \in {"evaluateForStatement", "evaluateWhileStatement"}

\* The step starts an evaluation of the body of the innermost loop.
BodyStarts ==
  /\ InLoop(kont')
  /\ kont'[Len(kont')].i = AtBody
  /\ ctl' = Eval(kont'[Len(kont')].node.body, kont'[Len(kont')].env)

\* The loop is at the top of a turn with no test to make: for (...; ; ...).
NoTestToMake ==
  \/ Entering("ForStatement") /\ ~Present(ctl.node.init) /\ ~Present(ctl.node.test)
  \/ /\ Returning("evaluateForStatement")
     /\ ~Present(Top.node.test)
     /\ \/ Top.i \in {AtInit, AtUpdate}
        \/ Top.i = AtBody /\ ~Present(Top.node.update) /\ ~IsReturnValue(ctl.val)

TestReturned == InLoop(kont) /\ ctl.m = "ret" /\ pc = "run" /\ Top.i = AtTest
BodyReturned == InLoop(kont) /\ ctl.m = "ret" /\ pc = "run" /\ Top.i = AtBody

LoopTurns ==
  /\ BodyStarts => ((TestReturned /\ Truthy(ctl.val)) \/ NoTestToMake)
  /\ (TestReturned /\ ~Truthy(ctl.val)) => (ctl' = Ret(Undefined) /\ kont' = Pop)
  /\ (BodyReturned /\ IsReturnValue(ctl.val)) => (ctl' = Ret(ctl.val) /\ kont' = Pop)

LoopsScriptLogs ==
  (scriptCode.name = "loops" /\ Finished) =>
    /\ pc = "done"
    /\ GuestLogs = << Num(0), Num(1), Str("found"), Num(0), Str("none"), Num(2),
                      Str("once"), Num(2) >>

\* C9: a for or while loop evaluates its body only after a truthy test (a for
\* without a test has none to make) and ends at the first falsy test; when the
\* body yields a Return sentinel the loop ends at once, with no further test,
\* update or body evaluation, and the sentinel is the loop's result.
LoopsTestThenBody == []LoopsScriptLogs /\ [][LoopTurns]_vars

\* The body of a for loop has just yielded a Return sentinel with turns left.
LoopsTestThenBodyReached ==
  /\ scriptCode.name = "loops"
  /\ BodyReturned
  /\ Top.f = "evaluateForStatement"
  /\ Present(Top.node.test)
  /\ ctl.val = ReturnValue(Str("found"))

(***************************************************************************)
(* Arithmetic.                                                             *)
(***************************************************************************)
RECURSIVE ArithmeticValue(_)
\* The value the guest language's operators give an arithmetic expression.
ArithmeticValue(node) ==
  CASE node.type = "Literal" -> node.value
    [] node.type = "UnaryExpression" ->
         IF node.operator = "-" THEN NumNeg(ToNumber(ArithmeticValue(node.argument)))
                                ELSE ToNumber(ArithmeticValue(node.argument))
    [] node.type = "BinaryExpression" ->
         LET left == ArithmeticValue(node.left)
             right == ArithmeticValue(node.right)
         IN CASE node.operator = "+" -> JsPlus(left, right)
              [] node.operator = "-" -> NumAdd(ToNumber(left), NumNeg(ToNumber(right)))
              [] node.operator = "*" -> NumMul(ToNumber(left), ToNumber(right))
              [] node.operator = "/" -> NumDiv(ToNumber(left), ToNumber(right))
              [] node.operator = "%" -> NumRem(ToNumber(left), ToNumber(right))
              [] node.operator = "**" -> NumPow(ToNumber(left), ToNumber(right))

\* C10: for every well-formed arithmetic expression over bounded integers built
\* from +, -, *, /, %, ** and unary + and -, the evaluator returns the value the
\* guest language's numeric operators assign to it, and + with a string operand
\* concatenates.
ArithmeticMatchesOperators ==
  (scriptCode.name = "arithmetic" /\ pc = "done") =>
    /\ ErrorLogs("executeLine") = <<>>
    /\ result = ArithmeticValue(Expression(inp))

(***************************************************************************)
(* Node kinds without a case in evaluateNode.                              *)
(***************************************************************************)
\* The kinds the evaluator has a case for.
ImplementedKinds ==
  { "Program", "ExpressionStatement", "CallExpression", "MemberExpression",
    "Identifier", "Literal", "BinaryExpression", "LogicalExpression",
    "UnaryExpression", "UpdateExpression", "AssignmentExpression",
    "VariableDeclaration", "BlockStatement", "IfStatement", "ForStatement",
    "WhileStatement", "ObjectExpression", "ArrayExpression", "FunctionDeclaration",
    "ArrowFunctionExpression", "ReturnStatement", "TemplateLiteral",
    "ConditionalExpression", "TryStatement", "AwaitExpression" }

\* The evaluator is handed a node of a kind it has no case for.
AtUnsupportedNode == pc = "run" /\ ctl.m = "eval" /\ ctl.node.type \notin ImplementedKinds

\* The step taken from such a node raises the error naming the kind, and does
\* nothing else.
RaisesUnsupported ==
  AtUnsupportedNode =>
    /\ ctl'.m = "throw"
    /\ ctl'.val.k = "error"
    /\ MessageOf(ctl'.val) = "Unsupported node type: " \o ctl.node.type
    /\ UNCHANGED <<kont, envs, objs, trace, pc>>

\* What the lines of the "unsupported" fragment log: the kinds in line order.
UnsupportedScriptLogs ==
  (Finished /\ scriptCode.name = "unsupported") =>
    /\ GuestLogs = <<Str("start"), Str("in"), Str("end")>>
    /\ LET kinds == << "ContinueStatement", "BreakStatement", "SwitchStatement",
                        "ClassDeclaration", "NewExpression", "ThrowStatement",
                        "EmptyStatement", "ThisExpression" >>
           lines == scriptCode.lines
           logs == ErrorLogs("executeLine")
       IN /\ Len(logs) = Len(kinds)
          /\ \A i \in 1..Len(kinds) :
               logs[i].val = Str("Error in line \"" \o Join(Trim(lines[i + 2].text))
                                 \o "\": Unsupported node type: " \o kinds[i])

\* C11: evaluating a node of a kind the evaluator does not implement always
\* raises an error whose message names that kind, and never completes normally:
\* the step from such a node is the throw and changes nothing else, and every
\* line of the fragment made of such nodes is reported with its kind.
UnsupportedNodeRaises == []UnsupportedScriptLogs /\ [][RaisesUnsupported]_vars

\* The fragment has run to its end, every unsupported kind reported.
UnsupportedNodeRaisesReached ==
  /\ Finished /\ scriptCode.name = "unsupported"
  /\ Len(ErrorLogs("executeLine")) = 8
  /\ \E i \in 1..Len(trace) :
       /\ trace[i].e = "log" /\ trace[i].at = <<"executeLine">>
       /\ trace[i].val = Str("Error in line \"for (;;) { log('in'); break; }\": "
                             \o "Unsupported node type: BreakStatement")

(***************************************************************************)
(* The execution context and the root environment.                         *)
(***************************************************************************)
\* The root environment of this invocation, once its Interpreter is made.
RootVariables == envs[globalEnv].variables

\* The three members of the context are bound in the root environment.
RootSeeded ==
  globalEnv # 0 =>
    /\ "page" \in DOMAIN RootVariables
    /\ RootVariables["page"] = HostProxy(<<context.page>>)
    /\ "log" \in DOMAIN RootVariables
    /\ RootVariables["log"] = [k |-> "contextLog", v |-> context.log]
    /\ context.parameters # Undefined => "parameters" \in DOMAIN RootVariables

\* The "parameters" script reads the value the caller supplied.
ParametersScriptLogs ==
  (Finished /\ scriptCode.name = "parameters") =>
    /\ ErrorLogs("executeLine") = <<>>
    /\ GuestLogs = <<Str("object"), context.parameters.query>>

\* C12: the root environment of every execution holds the wrapped host object,
\* the logging function and the caller's parameter map; with parameters
\* supplied, guest code reads them without an undefined-variable error.
ContextSeedsRootEnvironment == RootSeeded /\ ParametersScriptLogs

(***************************************************************************)
(* Two invocations in flight.                                              *)
(***************************************************************************)
RECURSIVE Root(_, _)
\* The outermost Environment of the chain env is in.
Root(es, env) == IF es[env].parent = 0 THEN env ELSE Root(es, es[env].parent)

\* The Environments an invocation's evaluation stands in.
StandsIn(control, stack) ==
  ({control.env} \cup {stack[i].env : i \in 1..Len(stack)}) \ {0}

\* The Environments the closures bound in the chain under root g capture.
Captured(g) ==
  UNION { { envs[e].variables[n].v.env :
              n \in {n \in DOMAIN envs[e].variables : envs[e].variables[n].k = "closure"} } :
          e \in {e \in 1..Len(envs) : Root(envs, e) = g} }

\* Everything the invocation with root g, control and stack can look a name up
\* in lies under its own root.
OwnChain(g, control, stack) ==
  \A e \in StandsIn(control, stack) \cup Captured(g) : g # 0 /\ Root(envs, e) = g

\* Neither invocation can reach an Environment of the other.
ChainsApart ==
  parked # <<>> =>
    /\ OwnChain(globalEnv, ctl, kont)
    /\ OwnChain(parked[1].interpreter.globalEnv, parked[1].ctl, parked[1].kont)
    /\ globalEnv # 0 => globalEnv # parked[1].interpreter.globalEnv

\* The guest log calls a context's callback got.
GuestLogsOf(events) ==
  LET logs == SelectSeq(events, LAMBDA event : event.e = "log" /\ event.at = <<"guest">>)
  IN [i \in 1..Len(logs) |-> logs[i].val]

\* The messages executeScript's per-line catch gave a context's callback.
LineErrorsOf(events) ==
  LET logs == SelectSeq(events, LAMBDA event :
                event.e = "log" /\ event.at = <<"executeLine">>)
  IN [i \in 1..Len(logs) |-> logs[i].val]

\* What the callback of the context of "isolation-a" and of "isolation-b" must
\* have got once that invocation is over.
OwnLogsOnly(name, events) ==
  /\ name = "isolation-a" =>
       /\ GuestLogsOf(events) = <<Str("a")>>
       /\ \A i \in 1..Len(LineErrorsOf(events)) :
            LineErrorsOf(events)[i] =
              Str("Error in line \"await page.click('#a')\": Timeout exceeded: page.click")
  /\ name = "isolation-b" =>
       /\ GuestLogsOf(events) = <<Str("b")>>
       /\ \E i \in 1..Len(LineErrorsOf(events)) :
            LineErrorsOf(events)[i] =
              Str("Error in line \"log(secret)\": Variable 'secret' is not defined")

BothOver == Finished /\ parked # <<>> /\ parked[1].pc \in {"done", "rejected"}

\* C13: two invocations of executeScript, one after the other or interleaved
\* at suspension points, share no variable binding: each looks names up only
\* under the root environment of its own Interpreter, a name one of them
\* defined is not found by the other, and the guest log calls of each reach
\* the log callback of its own context only.
InvocationsShareNothing ==
  /\ ChainsApart
  /\ BothOver =>
       /\ OwnLogsOnly(scriptCode.name, trace)
       /\ OwnLogsOnly(Scripts[parked[1].script].name, parked[1].trace)

\* Both invocations are over, and they were interleaved: the second one made
\* its Interpreter while the first, `secret` defined, waited for its click.
InvocationsShareNothingReached ==
  /\ BothOver
  /\ scriptCode.name = "isolation-b"
  /\ GuestLogsOf(parked[1].trace) = <<Str("a")>>
  /\ GuestLogsOf(trace) = <<Str("b")>>
  /\ parked[1].interpreter.globalEnv = 1
  /\ globalEnv > 2
  /\ "secret" \in DOMAIN envs[1].variables
  /\ "secret" \in DOMAIN envs[globalEnv].variables

(***************************************************************************)
(* Parse failures.                                                         *)
(***************************************************************************)
\* What the parser says to line n of a fragment, as executeScript hands it over.
ParsedLine(line) ==
  IF StartsWithAwait(Trim(line.text))
    THEN parseScript(WrappedCode(line))
    ELSE parseScript(Code(Trim(line.text), line.ast))

\* The lines of a fragment the parser rejects.
UnparsableLines(src) ==
  { n \in 1..Len(src.lines) :
      ~Skips(Trim(src.lines[n].text)) /\ ~ParsedLine(src.lines[n]).ok }

\* The source text is malformed: the parser rejects it, or a line of it.
Malformed(src) ==
  IF isFunctionBody(src) THEN UnparsableLines(src) # {}
  ELSE src.ast.type = "ParseError"

\* The log callback is told of a parse failure.
IsParseReport(event) ==
  /\ event.e = "log"
  /\ event.at \in {<<"executeScript">>, <<"executeLine">>}
  /\ \E line \in {<<>>} \cup {Trim(scriptCode.lines[n].text) : n \in 1..Len(scriptCode.lines)},
        message \in {"Unexpected token", "Unexpected token (1:4)", "Unexpected token (1:13)"} :
        event.val \in
          { Str("Error executing script: Failed to parse script: " \o message),
            Str("Error in line \"" \o Join(line) \o "\": Failed to parse script: "
                \o message) }

\* C14 as stated: if the source text is malformed, no host call and no guest
\* log call of the execution happens before the parse failure is reported.
ParseFailureBeforeAnyEffect ==
  Malformed(scriptCode) =>
    \A i \in 1..Len(trace) :
      IsEffect(trace[i]) => \E j \in 1..(i - 1) : IsParseReport(trace[j])

\* A complete program the parser rejects: nothing is evaluated, the failure is
\* the one thing reported, and executeScript rejects with it.
MalformedProgramRejected ==
  (~isFunctionBody(scriptCode) /\ Malformed(scriptCode)) =>
    /\ pc \in {"start", "rejected"}
    /\ ctl = Idle /\ kont = <<>>
    /\ globalEnv = 0
    /\ pc = "rejected" =>
         /\ Len(trace) = 1
         /\ IsParseReport(trace[1])
         /\ trace[1].at = <<"executeScript">>
         /\ result.k = "error"
         /\ trace[1].val = Str("Error executing script: " \o MessageOf(result))

\* A fragment is parsed line by line: a line the parser rejects is reported
\* before anything of that line is evaluated, after the earlier lines are done.
MalformedLineReported ==
  isFunctionBody(scriptCode) =>
    /\ \A i \in 1..Len(trace) :
         (trace[i].e = "line" /\ trace[i].at = <<"unparsable">>) =>
           /\ trace[i].val.v \in UnparsableLines(scriptCode)
           /\ i < Len(trace)
           /\ IsParseReport(trace[i + 1])
           /\ trace[i + 1].at = <<"executeLine">>
           /\ i > 1 =>
                \/ trace[i - 1].e = "line" /\ trace[i - 1].at[1] \in {"skipped", "returned"}
                \/ trace[i - 1].e = "log" /\ trace[i - 1].at = <<"executeLine">>
    /\ \A n \in UnparsableLines(scriptCode) :
         \A i \in 1..Len(trace) : trace[i] \notin {Line("parsed", n), Line("skipped", n)}
    /\ pc = "done" =>
         \A n \in UnparsableLines(scriptCode) :
           \E i \in 1..Len(trace) : trace[i] = Line("unparsable", n)

\* C14, amended: a complete program that does not parse is reported and
\* rejected before anything is evaluated; in a fragment each line is parsed
\* just before it is evaluated, so a line that does not parse is reported
\* before any effect of that line, the effects of earlier lines already made.
ParseFailureBeforeEvaluation == MalformedProgramRejected /\ MalformedLineReported

\* The fragment with the broken line is over: host calls and log calls were
\* made before the broken line was reported; and so is the malformed program.
ParseFailureBeforeEvaluationReached ==
  /\ Finished
  /\ scriptCode.name = "github-search"
  /\ \E i, j \in 1..Len(trace) :
       /\ i < j
       /\ trace[i].e = "host"
       /\ trace[j] = Line("unparsable", 7)

(***************************************************************************)
(* The choice between whole-program mode and fragment mode.                *)
(***************************************************************************)
RECURSIVE TrimmedText(_)
\* scriptCode.trim(), up to the end of its first line that is not blank.
TrimmedText(lines) ==
  IF lines = <<>> THEN <<>>
  ELSE IF Trim(Head(lines).text) # <<>> THEN Trim(Head(lines).text)
  ELSE TrimmedText(Tail(lines))

\* The pieces of the texts that go on with the letters of an identifier.
IdentifierParts == {"mId"}

\* The text starts with one of the keywords, and the keyword ends there.
StartsWithCompleteKeyword(src) ==
  LET text == TrimmedText(src.lines)
  IN /\ text # <<>>
     /\ text[1] \in Keywords
     /\ Len(text) >= 2 => text[2] \notin IdentifierParts

\* The execution took the complete-program branch: the text was parsed as a
\* whole and the loop over the lines never started.
WholeProgramMode == pc # "start" /\ lineNo = 0

\* The execution took the fragment branch.
FragmentMode == pc # "start" /\ lineNo >= 1

\* C15: a text is executed in whole-program mode if and only if, trimmed, it
\* starts with one of the keywords as a complete keyword; every other text,
\* also one whose first identifier only begins with the letters of a keyword,
\* is executed in fragment mode.
KeywordDecidesMode ==
  (pc # "start" /\ ~Direct(scriptCode)) =>
    /\ WholeProgramMode <=> StartsWithCompleteKeyword(scriptCode)
    /\ FragmentMode <=> ~StartsWithCompleteKeyword(scriptCode)

(***************************************************************************)
(* The lines a fragment skips.                                             *)
(***************************************************************************)
\* The line is `const { ... } = ctx`, with or without a semicolon, and
\* nothing else.
MerelyDestructuresContext(text) ==
  /\ Len(text) >= 5
  /\ text[1] = "const"
  /\ LET open == SkipBlanks(text, 2)
         close == open + 2
         eq == SkipBlanks(text, close + 1)
         ctx == SkipBlanks(text, eq + 1)
     IN /\ close <= Len(text)
        /\ text[open] = "{"
        /\ text[open + 1] \notin {"{", "}"}
        /\ text[close] = "}"
        /\ eq <= Len(text) /\ text[eq] = "="
        /\ ctx <= Len(text) /\ text[ctx] = "ctx"
        /\ SubSeq(text, ctx + 1, Len(text)) \in {<<>>, <<";">>}

\* The lines the statement lets a fragment skip.
ToBeSkipped(text) ==
  \/ text = <<>>
  \/ text[1] = "//"
  \/ MerelyDestructuresContext(text)

\* C16: in fragment mode a line is skipped, with no log output, exactly when
\* it is blank, a comment, or merely destructures the context; every other
\* line is parsed and evaluated, and what a line does is over before the next
\* line starts.
SkipsExactlyIdleLines ==
  isFunctionBody(scriptCode) =>
    \A i \in 1..Len(trace) :
      trace[i].e = "line" =>
        LET n == trace[i].val.v
            text == Trim(scriptCode.lines[n].text)
        IN /\ trace[i].at = <<"skipped">> <=>
                (trace[i].at \in {<<"skipped">>, <<"parsed">>, <<"unparsable">>}
                   /\ ToBeSkipped(text))
           /\ trace[i].at \in {<<"parsed">>, <<"unparsable">>} => ~ToBeSkipped(text)
           /\ \A j \in 1..(i - 1) : trace[j].e = "line" => trace[j].val.v <= n

(***************************************************************************)
(* The Return sentinel.                                                    *)
(***************************************************************************)
\* A Return sentinel comes back to a frame of one of the structural forms.
SentinelReturnsTo(forms) ==
  /\ pc = "run" /\ ctl.m = "ret" /\ kont # <<>>
  /\ Top.f \in forms
  /\ IsReturnValue(ctl.val)

\* The sentinel goes on to the evaluation that waits for this one.
SentinelGoesOn == ctl' = ctl /\ kont' = Pop

\* The step a block, loop or try/catch/finally makes of a sentinel: it hands
\* it on as it is, a try or catch block after the finalizer has run.
SentinelPropagates ==
  /\ SentinelReturnsTo({ "evaluateBlockStatement", "evaluateForStatement",
                         "evaluateWhileStatement" }) => SentinelGoesOn
  /\ SentinelReturnsTo({"evaluateTryStatement"}) =>
       IF Top.i \in {AtBlock, AtHandler} /\ Present(Top.node.finalizer)
         THEN /\ ctl' = Eval(Top.node.finalizer, Top.env)
              /\ kont' = Append(Pop, Frame("evaluateTryStatement", Top.node, Top.env,
                                           AtFinalizer, <<ctl>>))
         ELSE SentinelGoesOn
  /\ ( /\ pc = "run" /\ ctl.m = "ret" /\ kont # <<>>
       /\ Top.f = "evaluateTryStatement" /\ Top.i = AtFinalizer
       /\ ~IsReturnValue(ctl.val)
       /\ Top.acc[1].m = "ret" /\ IsReturnValue(Top.acc[1].val) ) =>
       (ctl' = Top.acc[1] /\ kont' = Pop)

\* The function call unwraps the sentinel: its result is the carried value.
SentinelUnwrapped ==
  SentinelReturnsTo({"createFunction"}) => (ctl' = Ret(ctl.val.v) /\ kont' = Pop)

\* No guest value seen by the log callback or the host, bound in an
\* environment or handed over as the result, is a sentinel.
SentinelNeverObserved ==
  /\ \A i \in 1..Len(trace) :
       /\ ~IsReturnValue(trace[i].val)
       /\ \A a \in 1..Len(trace[i].args) : ~IsReturnValue(trace[i].args[a])
  /\ ~IsReturnValue(result)

\* What the log callback gets from the returns script if every `return`
\* reaches its call.
ReturnsScriptLogs ==
  (scriptCode.name = "returns" /\ Finished) =>
    /\ pc = "done"
    /\ GuestLogs = << Str("f1"), Str("try"), Str("f2"), Str("catch"), Str("t3"),
                      Str("finally") >>

\* C17: a Return sentinel produced anywhere inside a function body goes
\* unchanged through every enclosing block, if, loop and try/catch/finally,
\* whether the `return` is in a try block, a catch block or a finalizer, and the
\* nearest enclosing function call unwraps it; the sentinel is never
\* observable as a guest value.
ReturnReachesItsCall ==
  /\ []SentinelNeverObserved
  /\ []ReturnsScriptLogs
  /\ [][SentinelPropagates /\ SentinelUnwrapped]_vars

\* A child statement of a Block yields a sentinel: the Block evaluates no
\* later sibling and the sentinel is its result.
BlockStopsAtReturn ==
  SentinelReturnsTo({"evaluateBlockStatement"}) => SentinelGoesOn

\* The same of a Program.
ProgramStopsAtReturn ==
  SentinelReturnsTo({"evaluateProgram"}) => SentinelGoesOn

ComesBackToTry(at) ==
  /\ pc = "run" /\ ctl.m \in {"ret", "throw"} /\ kont # <<>>
  /\ Top.f = "evaluateTryStatement"
  /\ Top.i = at
  /\ Present(Top.node.finalizer)

\* The error of the try block goes to the handler: the outcome is still open.
GoesToHandler ==
  /\ Top.i = AtBlock /\ ctl.m = "throw" /\ ~IsReturnValue(ctl.val)
  /\ Present(Top.node.handler)

\* The step starts the finalizer in the try statement's environment and keeps
\* the outcome for after it.
FinalizerStartsWith(outcome) ==
  /\ ctl' = Eval(Top.node.finalizer, Top.env)
  /\ kont' = Append(Pop, Frame("evaluateTryStatement", Top.node, Top.env, AtFinalizer,
                               <<outcome>>))

\* Once the try/catch outcome is there the finalizer is the next thing
\* evaluated; nothing reaches the caller before it, and after it the outcome
\* does, the finalizer not being evaluated again.
FinalizerBetween ==
  /\ (ComesBackToTry(AtBlock) /\ ~GoesToHandler) => FinalizerStartsWith(ctl)
  /\ (ComesBackToTry(AtBlock) /\ GoesToHandler) =>
       /\ ctl' = Eval(Top.node.handler.body, NewEnv(envs))
       /\ kont' = Append(Pop, Frame("evaluateTryStatement", Top.node, Top.env, AtHandler,
                                    <<>>))
  /\ ComesBackToTry(AtHandler) => FinalizerStartsWith(ctl)
  /\ (ComesBackToTry(AtFinalizer) /\ ctl.m = "ret") =>
       (ctl' = Top.acc[1] /\ kont' = Pop)

\* What the log callback gets from the try-paths script: each finalizer once,
\* after its try or catch block and before the caller goes on.
TryPathsScriptLogs ==
  (scriptCode.name = "try-paths" /\ Finished) =>
    /\ pc = "done"
    /\ GuestLogs =
         << Str("f1"), Str("r1"),
            Str("f2"), Str("Variable 'missing' is not defined"),
            Str("c3"), Str("f3"), Str("Cannot read properties of null (reading 'x')"),
            Str("f4"),
            Str("t5"), Str("f5") >>

\* The same where the try block awaits a host call that is rejected or not.
TryHostScriptLogs ==
  (scriptCode.name = "try-host" /\ Finished) =>
    /\ pc = "done"
    /\ GuestLogs \in { <<Str("done")>>, <<Str("Timeout exceeded: page.click"), Str("done")>> }

\* C19: the finalizer of a try statement is evaluated exactly once whether the
\* try block completed normally, yielded a Return sentinel, threw and was
\* caught, threw with no handler, or the catch block itself threw; it is
\* evaluated after the try/catch outcome is determined and before that
\* outcome reaches the caller.
FinalizerRunsOnce ==
  /\ []TryPathsScriptLogs
  /\ []TryHostScriptLogs
  /\ [][FinalizerBetween]_vars

\* The try-paths script is over: the finalizers of the five paths have run.
FinalizerRunsOnceReached ==
  /\ scriptCode.name = "try-paths"
  /\ pc = "done"
  /\ \A f \in {"f1", "f2", "f3", "f4", "f5"} :
       Cardinality({i \in 1..Len(GuestLogs) : GuestLogs[i] = Str(f)}) = 1

(***************************************************************************)
(* The handler.                                                            *)
(***************************************************************************)
\* The try block of a try statement with a handler comes back: it threw, or
\* it returned (a value or a sentinel).
TryBlockComesBack(how) ==
  /\ pc = "run" /\ ctl.m = how /\ kont # <<>>
  /\ Top.f = "evaluateTryStatement"
  /\ Top.i = AtBlock
  /\ Present(Top.node.handler)

\* The step starts the catch block in a fresh child frame of the try
\* statement's environment that holds the error under the parameter's name and
\* nothing else; the failure goes to no other evaluation.
HandlerStarts ==
  LET param == Top.node.handler.param
      catchEnv == Len(envs) + 1
  IN /\ Len(envs') = catchEnv
     /\ \A env \in 1..Len(envs) : envs'[env] = envs[env]
     /\ envs'[catchEnv].parent = Top.env
     /\ envs'[catchEnv].variables =
          IF Present(param) THEN SetProperty(<<>>, param.name, ctl.val) ELSE <<>>
     /\ ctl' = Eval(Top.node.handler.body, catchEnv)
     /\ kont' = Append(Pop, Frame("evaluateTryStatement", Top.node, Top.env, AtHandler,
                                  <<>>))

\* Every failure of the try block starts the handler; a try block that
\* returned, a sentinel too, does not.
HandlerIntercepts ==
  /\ TryBlockComesBack("throw") => HandlerStarts
  /\ TryBlockComesBack("ret") =>
       /\ ctl'.m # "eval" \/ ctl'.node # Top.node.handler.body
       /\ \A i \in 1..Len(kont') :
            kont'[i].f = "evaluateTryStatement" /\ kont'[i].node = Top.node
              => kont'[i].i # AtHandler \/ i < Len(kont)
       /\ envs' = envs

\* What the log callback gets from the catch-kinds script: the message of
\* each kind of failure from its handler, the outer `e` untouched, no handler
\* run for the `return`, and the run completes.
CatchKindsScriptLogs ==
  (scriptCode.name = "catch-kinds" /\ Finished) =>
    /\ pc = "done"
    /\ \E host \in {"clicked", "Timeout exceeded: page.click"} :
         GuestLogs =
           << Str("Variable 'missing' is not defined"), Str("outer"),
              Str("Cannot read properties of null (reading 'x')"),
              Str("Attempted to call a non-function"),
              Str("Unsupported node type: ThrowStatement"),
              Str(host),
              Str("no parameter"), Str("r"), Str("end") >>

\* C20: a try statement with a handler intercepts every failure raised in its
\* try block, reference, type, unsupported-construct and host failures alike:
\* the catch block runs with the error bound to the catch parameter in a fresh
\* child frame and the failure goes no further; a Return sentinel yielded by
\* the try block never runs the catch block.
HandlerInterceptsFailures ==
  /\ []CatchKindsScriptLogs
  /\ [][HandlerIntercepts]_vars

\* The catch-kinds script is over, the host call of its try block rejected.
HandlerInterceptsFailuresReached ==
  /\ scriptCode.name = "catch-kinds"
  /\ pc = "done"
  /\ Len(GuestLogs) = 9
  /\ GuestLogs[6] = Str("Timeout exceeded: page.click")

(***************************************************************************)
(* Declarations and frames.                                                *)
(***************************************************************************)
\* The step leaves every frame but env as it is, and env's parent too.
OnlyFrameWritten(env) ==
  /\ Len(envs') = Len(envs)
  /\ \A other \in 1..Len(envs) : other # env => envs'[other] = envs[other]
  /\ envs'[env].parent = envs[env].parent

\* A declarator's init has its value, or a function declaration is
\* evaluated: the name is bound in the frame the declaration is evaluated in,
\* and nothing else is written.
DeclarationBindsHere ==
  /\ Returning("evaluateVariableDeclaration") =>
       /\ OnlyFrameWritten(Top.env)
       /\ LET id == Top.node.declarations[Top.i].id
          IN id.type = "Identifier" =>
               envs'[Top.env].variables =
                 SetProperty(envs[Top.env].variables, id.name, ctl.val)
  /\ Entering("FunctionDeclaration") =>
       /\ OnlyFrameWritten(ctl.env)
       /\ envs'[ctl.env].variables =
            SetProperty(envs[ctl.env].variables, ctl.node.id.name,
                        Closure(ctl.node.params, ctl.node.body, ctl.env))

\* What the log callback gets from the scoping script: after the block, the
\* function call and the if branch are over, the enclosing frame sees its own
\* `x` and none of the names declared inside.
ScopingScriptLogs ==
  (scriptCode.name = "scoping" /\ Finished) =>
    /\ pc = "done"
    /\ GuestLogs =
         << Str("inner"), Str("g"), Str("outer"),
            Str("Variable 'y' is not defined"), Str("Variable 'g' is not defined"),
            Str("f"), Str("outer"),
            Str("Variable 'v' is not defined") >>
    /\ DOMAIN envs[globalEnv].variables \cap {"y", "g", "v"} = {}

\* C21: a variable or function declaration binds its name in the frame in
\* which it is evaluated and leaves every ancestor frame unchanged; after the
\* declaring block completes, lookup from the enclosing frame yields the
\* enclosing chain's own prior binding, or an undefined-variable error.
DeclarationsStayInTheirFrame ==
  /\ []ScopingScriptLogs
  /\ [][DeclarationBindsHere]_vars

\* The scoping script is over, its eight log calls made.
DeclarationsStayInTheirFrameReached ==
  /\ scriptCode.name = "scoping"
  /\ pc = "done"
  /\ Len(GuestLogs) = 8
  /\ GetProperty(envs[globalEnv].variables, "x") = Str("outer")

(***************************************************************************)
(* Assignment to a name no frame defines.                                  *)
(***************************************************************************)
\* The right-hand side of a plain `=` to an identifier has its value, and no
\* frame of the chain defines the name.
AssignsUndefinedName ==
  /\ Returning("evaluateAssignmentExpression")
  /\ Top.i = AtRight
  /\ Top.node.left.type = "Identifier"
  /\ Top.node.operator = "="
  /\ DefiningEnv(envs, Top.env, Top.node.left.name) = 0

\* The step succeeds and binds the name in the outermost frame of the chain.
DefinedInOutermostFrame ==
  LET outermost == Root(envs, Top.env)
      name == Top.node.left.name
  IN /\ ctl' = Ret(ctl.val)
     /\ name \in DOMAIN envs'[outermost].variables
     /\ envs'[outermost].variables[name] = ctl.val

\* What the log callback gets from the implicit-define script if the name
\* assigned inside f is still defined after the call.
ImplicitDefineScriptLogs ==
  (scriptCode.name = "implicit-define" /\ Finished) =>
    /\ pc = "done"
    /\ GuestLogs = <<Str("in f"), Str("in f")>>

\* C22: a plain `=` to a name that no frame of the chain defines always
\* succeeds and creates the binding in the global-most frame reachable from
\* the call site, so the name is still defined, with the assigned value, after
\* the block or function call that made the assignment has completed.
ImplicitDefineIsGlobal ==
  /\ []ImplicitDefineScriptLogs
  /\ [][AssignsUndefinedName => DefinedInOutermostFrame]_vars

(***************************************************************************)
(* The constructs that create a frame.                                     *)
(***************************************************************************)
\* The step adds one Environment, a child of parent, to the store.
FrameCreated(parent) ==
  /\ Len(envs') = Len(envs) + 1
  /\ envs'[Len(envs')].parent = parent

NoFrameCreated == Len(envs') = Len(envs)

\* A closure is called; a block, a for statement are met; an error of a try
\* block reaches the handler.
CallStarts == pc = "run" /\ ctl.m = "invoke" /\ ctl.val.k = "closure"
BlockStarts == Entering("BlockStatement")
ForStarts == Entering("ForStatement")
CatchStarts == TryBlockComesBack("throw") /\ ~IsReturnValue(ctl.val)

\* The step starts a loop iteration's body that is not itself a block (a
\* block body gets its frame as a block, in the step that follows).
StatementBodyStarts ==
  /\ pc = "run"
  /\ BodyStarts
  /\ ctl'.node.type # "BlockStatement"

\* C23 as stated: each function call, each block evaluation and each
\* evaluation of a loop iteration's body creates exactly one new child frame,
\* and no other construct creates a frame.
FramePerCallBlockIteration ==
  [][ pc = "run" =>
        /\ (CallStarts \/ BlockStarts \/ StatementBodyStarts)
              <=> Len(envs') = Len(envs) + 1
        /\ ~(CallStarts \/ BlockStarts \/ StatementBodyStarts) <=> NoFrameCreated ]_vars

\* The constructs that create a frame, each exactly one, and where they hang it.
FrameCreators ==
  pc = "run" =>
    /\ CallStarts => FrameCreated(ctl.val.v.env)
    /\ BlockStarts => FrameCreated(ctl.env)
    /\ ForStarts => FrameCreated(ctl.env)
    /\ CatchStarts => FrameCreated(Top.env)
    /\ ~(CallStarts \/ BlockStarts \/ ForStarts \/ CatchStarts) => NoFrameCreated
    /\ StatementBodyStarts => NoFrameCreated
    /\ \A env \in 1..Len(envs) : envs'[env].parent = envs[env].parent

\* C23, amended: each function call and each block evaluation creates exactly
\* one child frame, each for statement one frame that all its iterations
\* share, and each entry into a catch block one frame for the error; a loop
\* iteration gets a frame of its own only when its body is a block, and
\* nothing else evaluated creates a frame.
FramePerCallBlockForCatch == [][FrameCreators]_vars

\* A for loop is in its second turn at least: two block frames hang under
\* the one frame of the loop.
FramePerCallBlockForCatchReached ==
  /\ pc = "run" /\ kont # <<>>
  /\ Top.f = "evaluateForStatement"
  /\ Top.i = AtBody
  /\ ctl.m = "ret"
  /\ Cardinality({env \in 1..Len(envs) : envs[env].parent = Top.env}) >= 2

(***************************************************************************)
(* Branches and short circuits.                                            *)
(***************************************************************************)
\* The step hands the evaluation over to node, in the same environment, as
\* the whole of what is left of the construct.
GoesOnWith(node) == ctl' = Eval(node, Top.env) /\ kont' = Pop

\* The value of the left operand decides the result of the operator.
LeftDecides(operator, left) ==
  CASE operator = "&&" -> ~Truthy(left)
    [] operator = "||" -> Truthy(left)
    [] operator = "??" -> left.k \notin {"null", "undefined"}

\* The test of a conditional or of an if has its value: the one branch it
\* selects is evaluated and nothing of the other; the left operand of a
\* logical operator has its value: the right operand is evaluated only when
\* the left does not decide.
OneBranchTaken ==
  /\ Returning("evaluateConditionalExpression") =>
       GoesOnWith(IF Truthy(ctl.val) THEN Top.node.consequent ELSE Top.node.alternate)
  /\ Returning("evaluateIfStatement") =>
       IF Truthy(ctl.val) THEN GoesOnWith(Top.node.consequent)
       ELSE IF Present(Top.node.alternate) THEN GoesOnWith(Top.node.alternate)
       ELSE ctl' = Ret(Undefined) /\ kont' = Pop
  /\ ( /\ Returning("evaluateLogicalExpression")
       /\ Top.node.operator \in {"&&", "||", "??"} ) =>
       IF Top.i = 1 /\ ~LeftDecides(Top.node.operator, ctl.val)
         THEN /\ ctl' = Eval(Top.node.right, Top.env)
              /\ kont' = Append(Pop, [Top EXCEPT !.i = 2])
         ELSE ctl' = Ret(ctl.val) /\ kont' = Pop

\* What the short-circuit script does: the log calls of the selected
\* branches and operands only, and no host call.
ShortCircuitScriptEffects ==
  /\ scriptCode.name = "short-circuit" =>
       \A i \in 1..Len(trace) : trace[i].e \notin {"host", "forward"}
  /\ (scriptCode.name = "short-circuit" /\ Finished) =>
       /\ pc = "done"
       /\ GuestLogs = << Str("c1 yes"), Str("c2 no"), Str("if yes"), Str("if3 no"),
                         Str("and right"), Str("or right"), Str("nullish right") >>

\* C24: a conditional expression evaluates exactly one of its branches, an if
\* statement at most one, and `&&`, `||`, `??` evaluate the right operand only
\* when the left operand does not decide the result; the host calls and log
\* lines of what is not selected never occur.
OnlySelectedBranchRuns ==
  /\ []ShortCircuitScriptEffects
  /\ [][OneBranchTaken]_vars

\* The short-circuit script is over with its seven log calls.
OnlySelectedBranchRunsReached ==
  /\ scriptCode.name = "short-circuit"
  /\ pc = "done"
  /\ Len(GuestLogs) = 7

(***************************************************************************)
(* Awaited host calls.                                                     *)
(***************************************************************************)
\* A host call of this execution is in flight.
HostCallPending == pc = "run" /\ ctl.m = "host"

\* The event loop turns to the other invocation: this one stays as it is.
SetAside ==
  /\ parked' # <<>>
  /\ parked'[1].ctl = ctl
  /\ parked'[1].kont = kont
  /\ parked'[1].trace = trace
  /\ UNCHANGED <<envs, objs>>

\* While a host call is in flight the evaluation does nothing but wait; when
\* it settles the evaluation goes on where it waited, with the resolved value
\* returned or the rejection thrown, the error being the one the host gave.
ResumesWhereItWaited ==
  HostCallPending =>
    \/ SetAside
    \/ /\ kont' = kont
       /\ UNCHANGED <<envs, objs, pc>>
       /\ ctl' \in {Ret(HostResult(ctl.val.v)), Throw(HostError(ctl.val.v))}
       /\ Len(trace') = Len(trace) + 2
       /\ trace'[Len(trace) + 1].e = "settled"
       /\ trace'[Len(trace) + 1].val = ctl'.val

\* The host calls made so far that rejected.
Rejected(path) ==
  \E i \in 1..Len(trace) :
    trace[i] = Event("settled", path, <<Str("rejected")>>, HostError(path))

\* What comes of the await-outcome script: a rejection outside any try
\* reaches the caller of executeScript as it is, with nothing evaluated after
\* it; a resolved value is what the await yields; a rejection inside a try is
\* what the handler gets.
AwaitOutcomeScript ==
  (scriptCode.name = "await-outcome" /\ Finished) =>
    IF Rejected(<<"page", "title">>)
      THEN /\ pc = "rejected"
           /\ result = HostError(<<"page", "title">>)
           /\ GuestLogs = <<>>
           /\ \A i \in 1..Len(trace) : trace[i].e = "host" => trace[i].at = <<"page", "title">>
      ELSE /\ pc = "done"
           /\ GuestLogs =
                << HostResult(<<"page", "title">>),
                   IF Rejected(<<"page", "goto">>)
                     THEN Str(MessageOf(HostError(<<"page", "goto">>)))
                     ELSE HostResult(<<"page", "goto">>),
                   Str("end") >>

\* C25: when an awaited host call rejects, evaluation resumes at the await
\* with that same error thrown, which an enclosing try/catch can intercept and
\* which otherwise reaches the caller unchanged; when it resolves, the await
\* yields the resolved value; no later node is evaluated before the call has
\* settled.
AwaitYieldsHostOutcome ==
  /\ []AwaitOutcomeScript
  /\ [][ResumesWhereItWaited]_vars

\* The await-outcome script is over: the first call resolved, the second
\* rejected and was caught.
AwaitYieldsHostOutcomeReached ==
  /\ scriptCode.name = "await-outcome"
  /\ pc = "done"
  /\ Rejected(<<"page", "goto">>)
  /\ Len(GuestLogs) = 3

(***************************************************************************)
(* C26.  Every call waits for what it called.                              *)
(***************************************************************************)
\* The host calls of one execution, as its trace has them: the i-th event is a
\* host method being started.
HostCallStarted(tr, i) == tr[i].e = "host"

\* The host call started at the i-th event has settled, and nothing of the
\* execution happened in between.
SettledNext(tr, i) ==
  /\ i < Len(tr)
  /\ tr[i + 1].e = "settled"
  /\ tr[i + 1].at = tr[i].at

\* In the execution with trace tr and control c, every host call that was
\* started settled before anything else happened, but the last one if the
\* execution is waiting for it.
OneHostCallAtATime(tr, c, p) ==
  \A i \in 1..Len(tr) :
    HostCallStarted(tr, i) =>
      \/ SettledNext(tr, i)
      \/ i = Len(tr) /\ p = "run" /\ c.m = "host" /\ c.val.v = tr[i].at

\* The host calls in flight in the execution with trace tr.
InFlight(tr) ==
  Cardinality({i \in 1..Len(tr) : HostCallStarted(tr, i) /\ ~SettledNext(tr, i)})

\* C26: a call expression waits until what it called has settled, with or
\* without `await` in the script: in each execution at most one host call is in
\* flight, and the next one starts only after the one before it has settled.
HostCallsOneAtATime ==
  /\ OneHostCallAtATime(trace, ctl, pc)
  /\ InFlight(trace) <= 1
  /\ \A j \in 1..Len(parked) :
       /\ OneHostCallAtATime(parked[j].trace, parked[j].ctl, parked[j].pc)
       /\ InFlight(parked[j].trace) <= 1

\* `log(page.title(), page.goto('u'))` and `page.keyboard.type(log('k'))`, none
\* of them awaited in the script, have all been made and have settled.
HostCallsOneAtATimeReached ==
  /\ scriptCode.name = "ordering"
  /\ Cardinality({i \in 1..Len(trace) : HostCallStarted(trace, i)}) = 3
  /\ InFlight(trace) = 0

(***************************************************************************)
(* C27.  A text that starts with the context destructuring.                *)
(***************************************************************************)
RECURSIVE FirstNonBlankLine(_)
\* The first line of the text that is not blank, trimmed; <<>> if there is none.
FirstNonBlankLine(lines) ==
  IF lines = <<>> THEN <<>>
  ELSE IF Trim(Head(lines).text) # <<>> THEN Trim(Head(lines).text)
  ELSE FirstNonBlankLine(Tail(lines))

\* The text starts, blank lines apart, with `const { ... } = ctx`.
StartsWithContextDestructuring(src) ==
  /\ FirstNonBlankLine(src.lines) # <<>>
  /\ FirstNonBlankLine(src.lines)[1] = "const"
  /\ MatchesCtxDestructuring(FirstNonBlankLine(src.lines))

\* A host method was called or the guest called log.
HostOrLogCalled(tr) ==
  \E i \in 1..Len(tr) :
    \/ tr[i].e \in {"forward", "console", "host", "settled", "forwarded"}
    \/ tr[i].e = "log" /\ tr[i].at = <<"guest">>

\* The loop over the lines has looked at a line.
LineLoopEntered(tr) == pc = "line" \/ \E i \in 1..Len(tr) : tr[i].e = "line"

CallsReceiverMethod ==
  pc = "run" /\ ctl.m = "invoke" /\ ctl.val.k = "native" /\ ctl.val.v \in ReceiverMethods

\* The method runs as it does with no receiver at all.
RunsWithoutReceiver ==
  LET called == NativeMethod(objs, ctl.val.v, Undefined, CallArgs)
  IN /\ ctl' = IF called.ok THEN Ret(called.val) ELSE Throw(called.val)
     /\ UNCHANGED <<kont, envs, objs, trace>>

\* What the script receiver logs: o.twice(2) is the function applied to 2,
\* o.toString() describes undefined and not o, o.hasOwnProperty('n') throws.
ReceiverScriptLogs ==
  << Num(4), Str("[object Undefined]"),
     Str("Cannot convert undefined or null to object") >>

\* The host methods the execution started, with their arguments.
HostCallsMade ==
  LET calls == SelectSeq(trace, LAMBDA event : event.e = "host")
  IN [i \in 1..Len(calls) |-> <<calls[i].at, calls[i].args>>]

InProgress(i) == executions[i].pc \notin {"idle", "returned"}

NoneInProgress == \A i \in 1..MaxExecutions : ~InProgress(i)

\* The i-th executeScript returned for want of the script.
ReturnedNotFound(i) ==
  /\ executions[i].pc = "returned"
  /\ executions[i].script = NoScript

\* C29: whenever no executeScript of the background is in progress, isExecuting
\* is false: whichever way the function returned (success, script failure,
\* fatal error, script not found), it has reset the flag.
IdleMeansNotExecuting == NoneInProgress => isExecuting = FALSE

\* The flag is reset on the paths through the inner finally and the outer
\* catch: it is left set only by a return for want of the script.
IdleAfterFoundScripts ==
  (NoneInProgress /\ \A i \in 1..MaxExecutions : ~ReturnedNotFound(i))
    => isExecuting = FALSE

\* The answer of GET_EXECUTION_STATE is about an executeScript in progress:
\* the flag is set, and the logs are those of one that is running.
AnswersForOneInProgress(answer) ==
  /\ answer.isExecuting = TRUE
  /\ \E i \in 1..MaxExecutions : InProgress(i) /\ answer.logs = executions[i].logs

\* C30: while an executeScript of the background is still running,
\* GET_EXECUTION_STATE answers isExecuting = true and the logs of an invocation
\* that is running, whatever other EXECUTE_SCRIPT started or finished meanwhile.
ExecutionStateOfRunning ==
  [][(getExecutionState /\ ~NoneInProgress) => AnswersForOneInProgress(sent')]_vars

\* With one EXECUTE_SCRIPT only, the answer is that of the one running.
ExecutionStateOfOnlyRun ==
  [][(getExecutionState /\ ~NoneInProgress /\ executions[2].pc = "idle")
       => AnswersForOneInProgress(sent')]_vars
====
